---- MODULE Spec2Model ----
(***************************************************************************)
(* Temple Points Tracker: the submission ledger (Submit / Approve / Reject *)
(* handlers over the SQLite store), the achievement evaluator and the      *)
(* websocket broadcast hub, as a state machine.                            *)
(*                                                                         *)
(* Every handler is cut at its store statements and channel operations:    *)
(* one action is one SQL statement (or one channel rendezvous) together    *)
(* with the handler-local code that follows it up to the next one.         *)
(***************************************************************************)
EXTENDS Integers, Sequences, FiniteSets, TLC

\* ------------------------------------------------------------------ bounds

\* Requests issued over a behaviour.
MaxCalls == 2

\* The request goroutines that may run at once (net/http starts one per
\* request): two, the number every race between handlers needs.
Procs == {1, 2}

\* ------------------------------------------------------ program constants

\* wards seeded by seedData, ids 1..7 by AUTOINCREMENT in the order inserted
NumWards == 7
WardIds == 1..NumWards

\* achievement thresholds of checkAndAwardAchievements
T100 == 100
T500 == 500
T1000 == 1000
T1300 == 1300

NULL == 0

\* the threshold table of checkAndAwardAchievements, in its order
AchTable ==
  << [min |-> T100,  aType |-> "first_100",    title |-> "First 100 Points!"],
     [min |-> T500,  aType |-> "first_500",    title |-> "First to 500!"],
     [min |-> T1000, aType |-> "first_1000",   title |-> "Thousand Club!"],
     [min |-> T1300, aType |-> "goal_reached", title |-> "Goal Achieved!"] >>

\* ------------------------------------------------------------------- seed

SeedSub(w, pts, st) ==
  [ward_id |-> w, submitter_name |-> "Demo User", points |-> pts,
   status |-> st, approved_by |-> NULL]

\* sampleSubmissions of seedData; the row id is the position (AUTOINCREMENT)
sampleSubmissions ==
  << SeedSub(4, 847, "approved"), SeedSub(2, 765, "approved"),
     SeedSub(7, 692, "approved"), SeedSub(6, 543, "approved"),
     SeedSub(1, 489, "approved"), SeedSub(5, 412, "approved"),
     SeedSub(3, 387, "approved"),
     SeedSub(4, 50, "pending"), SeedSub(2, 55, "pending"),
     SeedSub(6, 35, "pending"), SeedSub(1, 25, "pending"),
     SeedSub(3, 55, "pending") >>

AchRow(w, t, ttl) == [ward_id |-> w, type |-> t, title |-> ttl]

\* the achievements seedData inserts
seedAchievements ==
  << AchRow(4, "first_500", "First to 500!"),
     AchRow(4, "week_champion", "Week Champion"),
     AchRow(4, "streak_3", "3 Day Streak!"),
     AchRow(2, "rising_star", "Rising Star"),
     AchRow(2, "team_player", "Team Player"),
     AchRow(7, "consistent", "Consistent"),
     AchRow(6, "getting_started", "Getting Started"),
     AchRow(3, "momentum", "Building Momentum!") >>

\* users: the admin seedData creates (id 1) and one ward approver added the
\* way the README documents (INSERT INTO users ... 'ward_approver', 1)
seedUsers ==
  (1 :> [role |-> "admin", ward_id |-> NULL]) @@
  (2 :> [role |-> "ward_approver", ward_id |-> 1])

\* ------------------------------------------------------------- SQL helpers

RECURSIVE SumUpTo(_, _, _, _)
SumUpTo(S, n, w, st) ==
  IF n = 0 THEN 0
  ELSE SumUpTo(S, n - 1, w, st)
       + (IF S[n].ward_id = w /\ S[n].status = st THEN S[n].points ELSE 0)

\* SELECT COALESCE(SUM(points), 0) FROM point_submissions
\*   WHERE ward_id = w AND status = st
SumPoints(S, w, st) == SumUpTo(S, Len(S), w, st)

\* UPDATE wards SET points = (SUM approved), pending_points = (SUM pending)
SeedWards(S) ==
  [w \in WardIds |->
     [points |-> SumPoints(S, w, "approved"),
      pending_points |-> SumPoints(S, w, "pending")]]


\* ------------------------------------------------------ request parsing

\* A decimal string as the sequence of its characters: 0..9 are the digits,
\* NonDigit any other character.
NonDigit == 10

RECURSIVE DecVal(_, _)
DecVal(s, n) == IF n = 0 THEN 0 ELSE DecVal(s, n - 1) * 10 + s[n]

\* strconv.Atoi: an error on the empty string or a non-digit
Atoi(s) ==
  IF s = << >> \/ (\E i \in 1..Len(s) : s[i] > 9)
  THEN [err |-> TRUE, val |-> 0]
  ELSE [err |-> FALSE, val |-> DecVal(s, Len(s))]

\* getUserIDFromSession: 0 without a cookie or with one that is no number.
\* An absent cookie is the empty sequence.
getUserIDFromSession(cookie) ==
  IF cookie = << >> THEN 0
  ELSE IF Atoi(cookie).err THEN 0 ELSE Atoi(cookie).val

\* session cookies tried: none, the admin, the ward-1 approver, an id with
\* no users row
Cookies == { << >>, <<1>>, <<2>>, <<3>> }

\* {id} path variables tried: the seeded pending row 8 (ward 4), the first
\* row a Submit creates (13), and a non-numeric id
IdTokens == { <<8>>, <<1, 3>>, <<NonDigit>> }

\* JSON bodies of POST /api/points tried
Body(ok, w, n, pts) ==
  [json_ok |-> ok, ward_id |-> w, submitter_name |-> n, points |-> pts]

SubmitBodies ==
  { Body(TRUE, 4, "Ann", 160), Body(TRUE, 1, "Ann", 60),
    Body(TRUE, 4, "Ann", 0),   Body(TRUE, 4, "Ann", -5),
    Body(TRUE, 4, "", 160),    Body(TRUE, 0, "Ann", 160),
    Body(TRUE, 9, "Ann", 160), Body(FALSE, 0, "", 0) }

\* ------------------------------------------------------------------ state

VARIABLES
  wards,          \* table wards: id -> [points, pending_points]
  subs,           \* table point_submissions, row id = position
  achievements,   \* table achievements, in insertion order
  activity_logs,  \* table activity_logs, in insertion order
  pc,             \* per request goroutine: where it stands
  req,            \* per request goroutine: the request it serves
  loc,            \* per request goroutine: the handler's local variables
  resp,           \* per request goroutine: the HTTP status written
  entries,        \* per request goroutine: the entries GET leaderboard wrote
  pre,            \* history: wards and subs when the request started
  solo,           \* history: no other request wrote the store since then
  failed,         \* history: a store write of the request failed
  calls,          \* requests issued so far
  clients,        \* Hub.clients
  send,           \* Client.send of every connection (buffered channel)
  closes,         \* how often close(client.send) ran, per connection
  hubPc,          \* Hub.run: "select" or "range" (inside the broadcast loop)
  hubMsg,         \* Hub.run: the message being broadcast
  hubTodo,        \* Hub.run: clients the range loop has yet to visit
  hubLog,         \* history: the messages Hub.run received, in order
  cstate,         \* per connection: handleWebSocket's position
  rp,             \* per connection: readPump's position
  wp,             \* per connection: writePump's position
  connOpen        \* per connection: the websocket is not Close()d yet

storeVars == <<wards, subs, achievements, activity_logs>>
procVars == <<pc, req, loc, resp, entries, pre, solo, failed, calls>>
hubVars == <<clients, send, closes, hubPc, hubMsg, hubTodo, hubLog>>
connVars == <<cstate, rp, wp, connOpen>>
vars == <<wards, subs, achievements, activity_logs, pc, req, loc, resp,
          entries, pre, solo, failed, calls, clients, send, closes, hubPc,
          hubMsg, hubTodo, hubLog, cstate, rp, wp, connOpen>>


\* ------------------------------------------------------------------- init

\* websocket connections a behaviour may open
MaxConns == 2
\* capacity of Client.send; the code makes it 256 (make(chan []byte, 256)),
\* the model a small number so that a full queue is within reach
SendCap == 1
\* broadcasts issued over a behaviour of the hub specification
MaxSends == 2
Conns == 1..MaxConns

\* history: n numbers the requests in the order they start; quiet says that
\* no other request was in flight when this one started
NoReq == [op |-> "none", n |-> 0, quiet |-> TRUE, cookie |-> << >>,
          idtok |-> << >>, body |-> Body(FALSE, 0, "", 0), sort |-> ""]
NoMsg == [type |-> "none", ward |-> 0, title |-> "", entries |-> << >>,
          achs |-> {}]
NoLoc == [userID |-> 0, subID |-> 0, wardID |-> 0, points |-> 0, name |-> "",
          achPoints |-> 0, i |-> 0, msg |-> NoMsg, ret |-> "none"]
NoPre == [wards |-> << >>, subs |-> << >>]

\* createTables + seedData on an empty database file
InitStore ==
  /\ subs = sampleSubmissions
  /\ wards = SeedWards(sampleSubmissions)
  /\ achievements = seedAchievements
  /\ activity_logs = << >>

InitProcs ==
  /\ pc = [p \in Procs |-> "idle"]
  /\ req = [p \in Procs |-> NoReq]
  /\ loc = [p \in Procs |-> NoLoc]
  /\ resp = [p \in Procs |-> "none"]
  /\ entries = [p \in Procs |-> << >>]
  /\ failed = [p \in Procs |-> FALSE]
  /\ pre = [p \in Procs |-> NoPre]
  /\ solo = [p \in Procs |-> TRUE]
  /\ calls = 0

\* NewServer: an empty client map, unbuffered hub channels, hub.run started
InitHub ==
  /\ clients = {}
  /\ send = [c \in Conns |-> << >>]
  /\ closes = [c \in Conns |-> 0]
  /\ hubPc = "select"
  /\ hubMsg = NoMsg
  /\ hubTodo = {}
  /\ hubLog = << >>

InitConns ==
  /\ cstate = [c \in Conns |-> "new"]
  /\ rp = [c \in Conns |-> "off"]
  /\ wp = [c \in Conns |-> "off"]
  /\ connOpen = [c \in Conns |-> FALSE]

Init == InitStore /\ InitProcs /\ InitHub /\ InitConns

\* --------------------------------------------------------- handler steps

users == seedUsers

Active(p) == pc[p] \notin {"idle", "done"}
Quiet == \A q \in Procs : ~Active(q)

\* history bookkeeping of a store write by p: every other request in flight
\* has been interfered with
Wrote(p) == [q \in Procs |-> IF q # p /\ Active(q) THEN FALSE ELSE solo[q]]

\* a request starts on a goroutine that serves none. Goroutines are
\* interchangeable: a fresh one is taken in order, a finished one (whose
\* request and response are still on display) only when no fresh one is left
CanStart(p) ==
  /\ ~Active(p)
  /\ calls < MaxCalls
  /\ IF pc[p] = "idle"
     THEN \A q \in Procs : pc[q] = "idle" => p <= q
     ELSE \A q \in Procs : pc[q] # "idle"

\* the request ends with HTTP status st before it touched anything
Fail(p, r, st) ==
  /\ pc' = [pc EXCEPT ![p] = "done"]
  /\ req' = [req EXCEPT ![p] = r]
  /\ resp' = [resp EXCEPT ![p] = st]
  /\ entries' = [entries EXCEPT ![p] = << >>]
  /\ failed' = [failed EXCEPT ![p] = FALSE]
  /\ loc' = [loc EXCEPT ![p] = NoLoc]
  /\ pre' = [pre EXCEPT ![p] = NoPre]
  /\ solo' = [solo EXCEPT ![p] = TRUE]
  /\ calls' = calls + 1
  /\ UNCHANGED storeVars

\* the request goes on to its next statement
Begin(p, r, l, next) ==
  /\ pc' = [pc EXCEPT ![p] = next]
  /\ req' = [req EXCEPT ![p] = r]
  /\ resp' = [resp EXCEPT ![p] = "none"]
  /\ entries' = [entries EXCEPT ![p] = << >>]
  /\ failed' = [failed EXCEPT ![p] = FALSE]
  /\ loc' = [loc EXCEPT ![p] = l]
  /\ pre' = [pre EXCEPT ![p] = [wards |-> wards, subs |-> subs]]
  /\ calls' = calls + 1

Goto(p, l, next) ==
  /\ pc' = [pc EXCEPT ![p] = next]
  /\ loc' = [loc EXCEPT ![p] = l]
  /\ UNCHANGED <<req, resp, entries, pre, failed, calls>>

\* (mutant) the validation with points < 0 for points <= 0
SubmitInvalidLax(b) ==
  b.ward_id = 0 \/ b.submitter_name = "" \/ b.points < 0

\* the validation of handleSubmitPoints
SubmitInvalid(b) ==
  b.ward_id = 0 \/ b.submitter_name = "" \/ b.points <= 0

\* handleSubmitPoints up to and including the INSERT INTO point_submissions
SubmitCall(p, b) ==
  LET r == [NoReq EXCEPT !.op = "submit", !.n = calls + 1,
                         !.quiet = Quiet, !.body = b]
  IN
  /\ CanStart(p)
  /\ IF ~b.json_ok THEN Fail(p, r, "400")
     ELSE IF SubmitInvalid(b) THEN Fail(p, r, "400")
     \* FOREIGN KEY (ward_id) REFERENCES wards(id), _foreign_keys=on
     ELSE IF b.ward_id \notin WardIds THEN Fail(p, r, "500")
     ELSE /\ subs' = Append(subs,
                [ward_id |-> b.ward_id, submitter_name |-> b.submitter_name,
                 points |-> b.points, status |-> "pending",
                 approved_by |-> NULL])
          /\ Begin(p, r, [NoLoc EXCEPT !.subID = Len(subs) + 1,
                                       !.wardID = b.ward_id,
                                       !.points = b.points,
                                       !.name = b.submitter_name],
                   "s_recompute")
          /\ solo' = [Wrote(p) EXCEPT ![p] = TRUE]
          /\ UNCHANGED <<wards, achievements, activity_logs>>
  /\ UNCHANGED <<hubVars, connVars>>


\* (mutant) an increment by the newest row's points for the recompute
SubmitWardRowIncrement(row, S, w) ==
  [row EXCEPT !.pending_points = @ + S[Len(S)].points]

\* UPDATE wards SET pending_points = (SELECT COALESCE(SUM(points), 0) ...
\*   WHERE ward_id = ? AND status = 'pending') WHERE id = ?
SubmitWardRow(row, S, w) ==
  [row EXCEPT !.pending_points = SumPoints(S, w, "pending")]

SubmitRecompute(p) ==
  /\ pc[p] = "s_recompute"
  /\ wards' = [wards EXCEPT ![loc[p].wardID] =
                 SubmitWardRow(@, subs, loc[p].wardID)]
  /\ Goto(p, loc[p], "s_log")
  /\ solo' = Wrote(p)
  /\ UNCHANGED <<subs, achievements, activity_logs, hubVars, connVars>>

\* logActivity: INSERT INTO activity_logs
LogRow(w, u, action, pts) ==
  [ward_id |-> w, user_id |-> u, action |-> action, points |-> pts]

\* s.logActivity(WardID, nil, "points_submitted", ..., Points)
SubmitLog(p) ==
  /\ pc[p] = "s_log"
  /\ activity_logs' = Append(activity_logs,
        LogRow(loc[p].wardID, NULL, "points_submitted", loc[p].points))
  /\ Goto(p, loc[p], "lb_query")
  /\ solo' = Wrote(p)
  /\ UNCHANGED <<wards, subs, achievements, hubVars, connVars>>

\* (mutant) the SELECT without AND status = 'pending'
SelectAnyStatus(S, id) == id \in 1..Len(S)

\* SELECT ... FROM point_submissions WHERE id = ? AND status = 'pending'
SelectPending(S, id) == id \in 1..Len(S) /\ S[id].status = "pending"

\* (mutant) the ward approver's assigned ward is not compared
canApproveAnyWard(userID, wardID) ==
  IF userID \notin DOMAIN users THEN FALSE
  ELSE users[userID].role \in {"admin", "ward_approver"}

\* canApproveForWard
canApproveForWard(userID, wardID) ==
  IF userID \notin DOMAIN users THEN FALSE
  ELSE IF users[userID].role = "admin" THEN TRUE
  ELSE users[userID].role = "ward_approver"
       /\ users[userID].ward_id # NULL
       /\ users[userID].ward_id = wardID

\* the common head of handleApprovePoints and handleRejectPoints: session,
\* path id, the SELECT of the pending row, the authorization check
ReviewCall(p, op, cookie, idtok, next) ==
  LET r == [NoReq EXCEPT !.op = op, !.n = calls + 1, !.quiet = Quiet,
                         !.cookie = cookie, !.idtok = idtok]
      userID == getUserIDFromSession(cookie)
      id == Atoi(idtok)
  IN
  /\ CanStart(p)
  /\ IF userID = 0 THEN Fail(p, r, "401")
     ELSE IF id.err THEN Fail(p, r, "400")
     ELSE IF ~SelectPending(subs, id.val) THEN Fail(p, r, "404")
     ELSE IF ~canApproveForWard(userID, subs[id.val].ward_id)
          THEN Fail(p, r, "403")
     ELSE /\ Begin(p, r, [NoLoc EXCEPT !.userID = userID,
                                       !.subID = id.val,
                                       !.wardID = subs[id.val].ward_id,
                                       !.points = subs[id.val].points,
                                       !.name = subs[id.val].submitter_name],
                   next)
          /\ solo' = [solo EXCEPT ![p] = TRUE]
          /\ UNCHANGED storeVars
  /\ UNCHANGED <<hubVars, connVars>>

ApproveCall(p, cookie, idtok) ==
  ReviewCall(p, "approve", cookie, idtok, "a_update_sub")

RejectCall(p, cookie, idtok) ==
  ReviewCall(p, "reject", cookie, idtok, "r_update_sub")

\* (mutant) the UPDATE point_submissions without its WHERE id = ?
UpdateStatusEveryRow(S, id, st, userID) ==
  [k \in 1..Len(S) |-> [S[k] EXCEPT !.status = st, !.approved_by = userID]]

\* UPDATE point_submissions SET status = ?, approved_by = ?, approved_at = now
\*   WHERE id = ?
UpdateStatus(S, id, st, userID) ==
  [S EXCEPT ![id].status = st, ![id].approved_by = userID]

ApproveUpdateSub(p) ==
  /\ pc[p] = "a_update_sub"
  /\ subs' = UpdateStatus(subs, loc[p].subID, "approved", loc[p].userID)
  /\ Goto(p, loc[p], "a_update_ward")
  /\ solo' = Wrote(p)
  /\ UNCHANGED <<wards, achievements, activity_logs, hubVars, connVars>>

\* (mutant) the UPDATE without pending_points = pending_points - ?
ApproveWardRowKeepPending(row, pts) ==
  [points |-> row.points + pts, pending_points |-> row.pending_points]

\* UPDATE wards SET points = points + ?, pending_points = pending_points - ?
ApproveWardRow(row, pts) ==
  [points |-> row.points + pts, pending_points |-> row.pending_points - pts]

\* (mutant) a read-modify-write: the totals read when the request started,
\* adjusted by the application and written back
ApproveUpdateWardStale(p) ==
  /\ pc[p] = "a_update_ward"
  /\ wards' = [wards EXCEPT ![loc[p].wardID] =
                 ApproveWardRow(pre[p].wards[loc[p].wardID], loc[p].points)]
  /\ Goto(p, loc[p], "a_ach_read")
  /\ solo' = Wrote(p)
  /\ UNCHANGED <<subs, achievements, activity_logs, hubVars, connVars>>

ApproveUpdateWard(p) ==
  /\ pc[p] = "a_update_ward"
  /\ wards' = [wards EXCEPT ![loc[p].wardID] = ApproveWardRow(@, loc[p].points)]
  /\ Goto(p, loc[p], "a_ach_read")
  /\ solo' = Wrote(p)
  /\ UNCHANGED <<subs, achievements, activity_logs, hubVars, connVars>>

\* checkAndAwardAchievements: SELECT points FROM wards WHERE id = ?
AchRead(p) ==
  /\ pc[p] = "a_ach_read"
  /\ Goto(p, [loc[p] EXCEPT !.achPoints = wards[loc[p].wardID].points,
                            !.i = 1], "a_ach")
  /\ UNCHANGED <<solo, storeVars, hubVars, connVars>>

\* INSERT OR IGNORE INTO achievements under UNIQUE(ward_id, type)
HasAchievement(A, w, t) ==
  \E k \in 1..Len(A) : A[k].ward_id = w /\ A[k].type = t

\* (mutant) a plain INSERT into a table without UNIQUE(ward_id, type)
InsertPlain(A, w, t, ttl) == Append(A, AchRow(w, t, ttl))

InsertOrIgnore(A, w, t, ttl) ==
  IF HasAchievement(A, w, t) THEN A ELSE Append(A, AchRow(w, t, ttl))

\* (mutant) points > threshold for points >= threshold
AchConditionStrict(points, k) == points > AchTable[k].min

\* the condition column of the table: points >= threshold
AchCondition(points, k) == points >= AchTable[k].min

\* whether the loop of checkAndAwardAchievements broadcasts after its
\* INSERT OR IGNORE: it tests err == nil, and the statement, given a row
\* that exists, ignores it without an error
AchBroadcasts(A, w, t) == TRUE

AchMsg(w, ttl) ==
  [type |-> "achievement", ward |-> w, title |-> ttl, entries |-> << >>,
   achs |-> {}]

\* one round of the loop of checkAndAwardAchievements that meets a true
\* condition (INSERT OR IGNORE, then broadcastAchievement up to its channel
\* send), or the end of the loop
AchStep(p) ==
  LET l == loc[p]
      met == {k \in l.i..Len(AchTable) : AchCondition(l.achPoints, k)}
  IN
  /\ pc[p] = "a_ach"
  /\ IF met = {}
     THEN /\ Goto(p, [l EXCEPT !.i = Len(AchTable) + 1], "a_log")
          /\ UNCHANGED <<solo, storeVars>>
     ELSE LET k == CHOOSE x \in met : \A y \in met : x <= y
              row == AchTable[k]
          IN
          /\ achievements' =
               InsertOrIgnore(achievements, l.wardID, row.aType, row.title)
          /\ IF AchBroadcasts(achievements, l.wardID, row.aType)
             THEN Goto(p, [l EXCEPT !.i = k + 1,
                                    !.msg = AchMsg(l.wardID, row.title),
                                    !.ret = "a_ach"], "send")
             ELSE Goto(p, [l EXCEPT !.i = k + 1], "a_ach")
          /\ solo' = IF achievements' # achievements THEN Wrote(p) ELSE solo
          /\ UNCHANGED <<wards, subs, activity_logs>>
  /\ UNCHANGED <<hubVars, connVars>>

\* (mutant) handleApprovePoints without its call of logActivity
ApproveLogSkipped(p) ==
  /\ pc[p] = "a_log"
  /\ Goto(p, loc[p], "lb_query")
  /\ UNCHANGED <<solo, storeVars, hubVars, connVars>>

\* s.logActivity(wardID, &userID, "points_approved", ..., points)
ApproveLog(p) ==
  /\ pc[p] = "a_log"
  /\ activity_logs' = Append(activity_logs,
        LogRow(loc[p].wardID, loc[p].userID, "points_approved", loc[p].points))
  /\ Goto(p, loc[p], "lb_query")
  /\ solo' = Wrote(p)
  /\ UNCHANGED <<wards, subs, achievements, hubVars, connVars>>

RejectUpdateSub(p) ==
  /\ pc[p] = "r_update_sub"
  /\ subs' = UpdateStatus(subs, loc[p].subID, "rejected", loc[p].userID)
  /\ Goto(p, loc[p], "r_update_ward")
  /\ solo' = Wrote(p)
  /\ UNCHANGED <<wards, achievements, activity_logs, hubVars, connVars>>

\* (mutant) the UPDATE of handleApprovePoints pasted into handleRejectPoints
RejectWardRowAsApprove(row, pts) ==
  [points |-> row.points + pts, pending_points |-> row.pending_points - pts]

\* UPDATE wards SET pending_points = pending_points - ? WHERE id = ?
RejectWardRow(row, pts) ==
  [points |-> row.points, pending_points |-> row.pending_points - pts]

RejectUpdateWard(p) ==
  /\ pc[p] = "r_update_ward"
  /\ wards' = [wards EXCEPT ![loc[p].wardID] = RejectWardRow(@, loc[p].points)]
  /\ Goto(p, loc[p], "lb_query")
  /\ solo' = Wrote(p)
  /\ UNCHANGED <<subs, achievements, activity_logs, hubVars, connVars>>

\* the payload of a leaderboard-update: the wards rows and, per ward, its
\* achievement titles (getLeaderboardEntries, getWardAchievements)
LeaderboardMsg(W, A) ==
  [type |-> "leaderboard-update", ward |-> 0, title |-> "", entries |-> W,
   achs |-> {<<A[k].ward_id, A[k].title>> : k \in 1..Len(A)}]

\* (mutant) a leaderboard computed from the wards as they were when the
\* request started
LeaderboardQueryStale(p) ==
  /\ pc[p] = "lb_query"
  /\ Goto(p, [loc[p] EXCEPT !.msg = LeaderboardMsg(pre[p].wards, achievements),
                            !.ret = "respond"], "send")
  /\ UNCHANGED <<solo, storeVars, hubVars, connVars>>

\* broadcastLeaderboardUpdate up to the channel send of broadcastUpdate
LeaderboardQuery(p) ==
  /\ pc[p] = "lb_query"
  /\ Goto(p, [loc[p] EXCEPT !.msg = LeaderboardMsg(wards, achievements),
                            !.ret = "respond"], "send")
  /\ UNCHANGED <<solo, storeVars, hubVars, connVars>>


\* -------------------------------------------------------- leaderboard

\* the ward names of seedData, in insertion order (the row id is the
\* position), each as the bytes of its text
wardNames ==
  <<
     \* "Fountain Green 1st Ward"
     <<70,111,117,110,116,97,105,110,32,71,114,101,101,110,32,49,115,116,32,
       87,97,114,100>>,
     \* "Fountain Green 2nd Ward"
     <<70,111,117,110,116,97,105,110,32,71,114,101,101,110,32,50,110,100,32,
       87,97,114,100>>,
     \* "Fountain Green 3rd Ward"
     <<70,111,117,110,116,97,105,110,32,71,114,101,101,110,32,51,114,100,32,
       87,97,114,100>>,
     \* "Moroni 1st Ward"
     <<77,111,114,111,110,105,32,49,115,116,32,87,97,114,100>>,
     \* "Moroni 2nd Ward"
     <<77,111,114,111,110,105,32,50,110,100,32,87,97,114,100>>,
     \* "Moroni 3rd Ward"
     <<77,111,114,111,110,105,32,51,114,100,32,87,97,114,100>>,
     \* "Sanpitch Ward"
     <<83,97,110,112,105,116,99,104,32,87,97,114,100>>
  >>

\* SQLite's BINARY collation of two texts: memcmp over the common length,
\* then the shorter one first
BinaryLess(a, b) ==
  \/ \E i \in 1..Len(a) :
       /\ i <= Len(b)
       /\ a[i] < b[i]
       /\ \A j \in 1..(i - 1) : a[j] = b[j]
  \/ /\ Len(a) < Len(b)
     /\ \A j \in 1..Len(a) : a[j] = b[j]

\* the goal the progress column is a percentage of
Goal == 1300

\* (mutant) the progress cut off after its first decimal
progressTruncated(points) == (points * 1000) \div Goal

\* ROUND(CAST(w.points AS FLOAT) / 1300 * 100, 1), in tenths of a percent.
\* SQLite rounds to the nearest tenth; no points value lies halfway between
\* two tenths (20 * points = 13 * (2k + 1) has no solution), and the gap to
\* the nearest halfway point, 1/26 of a tenth, is far above the error of
\* the floating-point division.
progress(points) == (2 * points * 1000 + Goal) \div (2 * Goal)

\* w.points + w.pending_points as total_points
total_points(row) == row.points + row.pending_points

\* (mutant) every sort key ordering by verified points, highest first
BeforeByPoints(W, sortBy, a, b) == W[a].points > W[b].points

\* the ORDER BY clause the switch on sortBy appends: row a has to come
\* before row b
Before(W, sortBy, a, b) ==
  CASE sortBy = "verified-asc" -> W[a].points < W[b].points
    [] sortBy = "total-desc" -> total_points(W[a]) > total_points(W[b])
    [] sortBy = "total-asc" -> total_points(W[a]) < total_points(W[b])
    [] sortBy = "ward-asc" -> BinaryLess(wardNames[a], wardNames[b])
    [] sortBy = "ward-desc" -> BinaryLess(wardNames[b], wardNames[a])
    [] OTHER -> W[a].points > W[b].points

\* the orders in which the query may return the rows S: SQL leaves the
\* order of rows with equal ORDER BY values open
RECURSIVE RowOrders(_, _, _)
RowOrders(W, sortBy, S) ==
  IF S = {} THEN { << >> }
  ELSE UNION { { <<w>> \o rest : rest \in RowOrders(W, sortBy, S \ {w}) } :
               w \in { x \in S : \A y \in S : ~Before(W, sortBy, y, x) } }

\* getWardAchievements: the titles of the ward's rows, in table order
RECURSIVE getWardAchievements(_, _, _)
getWardAchievements(A, n, w) ==
  IF n = 0 THEN << >>
  ELSE getWardAchievements(A, n - 1, w)
       \o (IF A[n].ward_id = w THEN <<A[n].title>> ELSE << >>)

\* (mutant) wards with equal verified points sharing a rank
getLeaderboardEntriesTiedRanks(W, A, order) ==
  [i \in 1..Len(order) |->
     [rank |-> 1 + Cardinality({ w \in WardIds :
                                   W[w].points > W[order[i]].points }),
      ward_id |-> order[i],
      ward_name |-> wardNames[order[i]],
      points |-> W[order[i]].points,
      pending_points |-> W[order[i]].pending_points,
      total_points |-> total_points(W[order[i]]),
      progress |-> progress(W[order[i]].points),
      achievements |-> getWardAchievements(A, Len(A), order[i])]]

\* the loop of getLeaderboardEntries over the rows in the order the query
\* returned them: rank counts the rows. The streak, a count over the last
\* seven days of the clock, is left out.
getLeaderboardEntries(W, A, order) ==
  [i \in 1..Len(order) |->
     [rank |-> i,
      ward_id |-> order[i],
      ward_name |-> wardNames[order[i]],
      points |-> W[order[i]].points,
      pending_points |-> W[order[i]].pending_points,
      total_points |-> total_points(W[order[i]]),
      progress |-> progress(W[order[i]].points),
      achievements |-> getWardAchievements(A, Len(A), order[i])]]

\* handleGetLeaderboard: the sort parameter, the query and the 200 response
\* with the entries. No statement of it writes the store.
handleGetLeaderboard(p, sort) ==
  LET sortBy == IF sort = "" THEN "verified-desc" ELSE sort
      r == [NoReq EXCEPT !.op = "leaderboard", !.n = calls + 1,
                         !.quiet = Quiet, !.sort = sort]
  IN
  /\ CanStart(p)
  /\ \E order \in RowOrders(wards, sortBy, WardIds) :
       entries' = [entries EXCEPT ![p] =
                     getLeaderboardEntries(wards, achievements, order)]
  /\ pc' = [pc EXCEPT ![p] = "done"]
  /\ req' = [req EXCEPT ![p] = r]
  /\ resp' = [resp EXCEPT ![p] = "200"]
  /\ loc' = [loc EXCEPT ![p] = NoLoc]
  /\ pre' = [pre EXCEPT ![p] = NoPre]
  /\ solo' = [solo EXCEPT ![p] = TRUE]
  /\ failed' = [failed EXCEPT ![p] = FALSE]
  /\ calls' = calls + 1
  /\ UNCHANGED <<storeVars, hubVars, connVars>>

\* ----------------------------------------------------------- store faults

\* a db.Exec of the handler returned an error that the handler only logs or
\* drops: nothing is written and the handler goes on
GotoFailed(p, l, next) ==
  /\ pc' = [pc EXCEPT ![p] = next]
  /\ loc' = [loc EXCEPT ![p] = l]
  /\ failed' = [failed EXCEPT ![p] = TRUE]
  /\ UNCHANGED <<req, resp, entries, pre, solo, calls, storeVars, hubVars,
                 connVars>>

\* a db.Exec of the handler returned an error that the handler answers with
\* http.Error(w, ..., http.StatusInternalServerError) and a return
Abort(p) ==
  /\ pc' = [pc EXCEPT ![p] = "done"]
  /\ resp' = [resp EXCEPT ![p] = "500"]
  /\ loc' = [loc EXCEPT ![p] = NoLoc]
  /\ pre' = [pre EXCEPT ![p] = NoPre]
  /\ failed' = [failed EXCEPT ![p] = TRUE]
  /\ UNCHANGED <<req, entries, solo, calls, storeVars, hubVars, connVars>>

\* handleSubmitPoints: the INSERT INTO point_submissions fails
SubmitInsertFails(p, b) ==
  /\ CanStart(p)
  /\ b.json_ok /\ ~SubmitInvalid(b) /\ b.ward_id \in WardIds
  /\ pc' = [pc EXCEPT ![p] = "done"]
  /\ req' = [req EXCEPT ![p] = [NoReq EXCEPT !.op = "submit",
                                             !.n = calls + 1,
                                             !.quiet = Quiet, !.body = b]]
  /\ resp' = [resp EXCEPT ![p] = "500"]
  /\ entries' = [entries EXCEPT ![p] = << >>]
  /\ loc' = [loc EXCEPT ![p] = NoLoc]
  /\ pre' = [pre EXCEPT ![p] = NoPre]
  /\ solo' = [solo EXCEPT ![p] = TRUE]
  /\ failed' = [failed EXCEPT ![p] = TRUE]
  /\ calls' = calls + 1
  /\ UNCHANGED <<storeVars, hubVars, connVars>>

\* handleSubmitPoints: the UPDATE wards fails; log.Printf only
SubmitRecomputeFails(p) ==
  pc[p] = "s_recompute" /\ GotoFailed(p, loc[p], "s_log")

\* logActivity: the INSERT INTO activity_logs fails; log.Printf only
SubmitLogFails(p) ==
  pc[p] = "s_log" /\ GotoFailed(p, loc[p], "lb_query")

\* handleApprovePoints: the UPDATE point_submissions fails; 500
ApproveUpdateSubFails(p) ==
  pc[p] = "a_update_sub" /\ Abort(p)

\* handleApprovePoints: the UPDATE wards fails; log.Printf only
ApproveUpdateWardFails(p) ==
  pc[p] = "a_update_ward" /\ GotoFailed(p, loc[p], "a_ach_read")

\* checkAndAwardAchievements: the INSERT OR IGNORE fails; the broadcast of
\* this achievement is skipped and the loop goes on
AchStepFails(p) ==
  LET l == loc[p]
      met == {k \in l.i..Len(AchTable) : AchCondition(l.achPoints, k)}
  IN
  /\ pc[p] = "a_ach"
  /\ met # {}
  /\ GotoFailed(p, [l EXCEPT !.i = (CHOOSE x \in met :
                                      \A y \in met : x <= y) + 1], "a_ach")

\* logActivity called by handleApprovePoints fails; log.Printf only
ApproveLogFails(p) ==
  pc[p] = "a_log" /\ GotoFailed(p, loc[p], "lb_query")

\* handleRejectPoints: the UPDATE point_submissions fails; 500
RejectUpdateSubFails(p) ==
  pc[p] = "r_update_sub" /\ Abort(p)

\* handleRejectPoints: the UPDATE wards fails; err is assigned and never
\* read
RejectUpdateWardFails(p) ==
  pc[p] = "r_update_ward" /\ GotoFailed(p, loc[p], "lb_query")

\* ------------------------------------------------------------------- hub

\* (mutant) a handler that answers 500 when a viewer cannot take its
\* broadcast
ResumeIfDelivered(p) ==
  IF loc[p].ret = "respond"
  THEN /\ pc' = [pc EXCEPT ![p] = "done"]
       /\ resp' = [resp EXCEPT ![p] =
            IF \E c \in clients : Len(send[c]) >= SendCap \/ ~connOpen[c]
            THEN "500" ELSE "200"]
       /\ loc' = [loc EXCEPT ![p] = NoLoc]
       /\ pre' = [pre EXCEPT ![p] = NoPre]
       /\ UNCHANGED <<req, entries, solo, failed, calls>>
  ELSE /\ pc' = [pc EXCEPT ![p] = loc[p].ret]
       /\ loc' = [loc EXCEPT ![p].msg = NoMsg, ![p].ret = "none"]
       /\ UNCHANGED <<req, resp, entries, pre, solo, failed, calls>>

\* the handler resumes after its channel send was taken: either back in the
\* achievement loop, or writing its 200 response
Resume(p) ==
  IF loc[p].ret = "respond"
  THEN /\ pc' = [pc EXCEPT ![p] = "done"]
       /\ resp' = [resp EXCEPT ![p] = "200"]
       /\ loc' = [loc EXCEPT ![p] = NoLoc]
       /\ pre' = [pre EXCEPT ![p] = NoPre]
       /\ UNCHANGED <<req, entries, solo, failed, calls>>
  ELSE /\ pc' = [pc EXCEPT ![p] = loc[p].ret]
       /\ loc' = [loc EXCEPT ![p].msg = NoMsg, ![p].ret = "none"]
       /\ UNCHANGED <<req, resp, entries, pre, solo, failed, calls>>

\* (mutant) the broadcast loops over every connection ever registered, not
\* over h.clients
HubBroadcastEverRegistered(p) ==
  /\ hubPc = "select"
  /\ pc[p] = "send"
  /\ hubLog' = Append(hubLog, loc[p].msg)
  /\ hubMsg' = loc[p].msg
  /\ hubTodo' = {c \in Conns : cstate[c] = "running"}
  /\ hubPc' = IF hubTodo' = {} THEN "select" ELSE "range"
  /\ Resume(p)
  /\ UNCHANGED <<storeVars, clients, send, closes, connVars>>

\* Hub.run, case message := <-h.broadcast, met by a handler blocked in
\* broadcastUpdate at s.hub.broadcast <- jsonData
HubBroadcast(p) ==
  /\ hubPc = "select"
  /\ pc[p] = "send"
  /\ hubLog' = Append(hubLog, loc[p].msg)
  /\ hubMsg' = loc[p].msg
  /\ hubTodo' = clients
  /\ hubPc' = IF clients = {} THEN "select" ELSE "range"
  /\ Resume(p)
  /\ UNCHANGED <<storeVars, clients, send, closes, connVars>>

\* select { case client.send <- message: default: ... } on one client
QueueFull(q) == Len(q) >= SendCap

\* (mutant) a full queue is skipped: neither closed nor deleted
HubRangeSkipFull(c) ==
  /\ hubPc = "range"
  /\ c \in hubTodo
  /\ IF QueueFull(send[c])
     THEN UNCHANGED send
     ELSE send' = [send EXCEPT ![c] = Append(@, hubMsg)]
  /\ hubTodo' = hubTodo \ {c}
  /\ hubPc' = IF hubTodo \ {c} = {} THEN "select" ELSE "range"
  /\ UNCHANGED <<storeVars, procVars, hubMsg, hubLog, connVars, closes,
                 clients>>

\* (mutant) client.send <- message without the default case: the hub waits
\* for room in the queue
HubRangeBlocking(c) ==
  /\ hubPc = "range"
  /\ c \in hubTodo
  /\ ~QueueFull(send[c])
  /\ send' = [send EXCEPT ![c] = Append(@, hubMsg)]
  /\ hubTodo' = hubTodo \ {c}
  /\ hubPc' = IF hubTodo \ {c} = {} THEN "select" ELSE "range"
  /\ UNCHANGED <<storeVars, procVars, hubMsg, hubLog, connVars, closes,
                 clients>>

\* (mutant) a full queue is closed but its client stays in the map
HubRangeCloseOnly(c) ==
  /\ hubPc = "range"
  /\ c \in hubTodo
  /\ IF QueueFull(send[c])
     THEN /\ closes' = [closes EXCEPT ![c] = @ + 1]
          /\ UNCHANGED <<send, clients>>
     ELSE /\ send' = [send EXCEPT ![c] = Append(@, hubMsg)]
          /\ UNCHANGED <<closes, clients>>
  /\ hubTodo' = hubTodo \ {c}
  /\ hubPc' = IF hubTodo \ {c} = {} THEN "select" ELSE "range"
  /\ UNCHANGED <<storeVars, procVars, hubMsg, hubLog, connVars>>

\* one round of for client := range h.clients
HubRange(c) ==
  /\ hubPc = "range"
  /\ c \in hubTodo
  /\ IF QueueFull(send[c])
     THEN /\ closes' = [closes EXCEPT ![c] = @ + 1]
          /\ clients' = clients \ {c}
          /\ UNCHANGED send
     ELSE /\ send' = [send EXCEPT ![c] = Append(@, hubMsg)]
          /\ UNCHANGED <<closes, clients>>
  /\ hubTodo' = hubTodo \ {c}
  /\ hubPc' = IF hubTodo \ {c} = {} THEN "select" ELSE "range"
  /\ UNCHANGED <<storeVars, procVars, hubMsg, hubLog, connVars>>

\* Hub.run, case client := <-h.register, met by handleWebSocket, which then
\* starts writePump and readPump
HubRegister(c) ==
  /\ hubPc = "select"
  /\ cstate[c] = "registering"
  /\ clients' = clients \cup {c}
  /\ cstate' = [cstate EXCEPT ![c] = "running"]
  /\ rp' = [rp EXCEPT ![c] = "read"]
  /\ wp' = [wp EXCEPT ![c] = "run"]
  /\ UNCHANGED <<storeVars, procVars, send, closes, hubPc, hubMsg, hubTodo,
                 hubLog, connOpen>>

\* (mutant) the unregister case without its test of h.clients[client]
HubUnregisterUnguarded(c) ==
  /\ hubPc = "select"
  /\ rp[c] = "unreg"
  /\ clients' = clients \ {c}
  /\ closes' = [closes EXCEPT ![c] = @ + 1]
  /\ rp' = [rp EXCEPT ![c] = "done"]
  /\ connOpen' = [connOpen EXCEPT ![c] = FALSE]
  /\ UNCHANGED <<storeVars, procVars, send, hubPc, hubMsg, hubTodo, hubLog,
                 cstate, wp>>

\* (mutant) an unregister that clears the whole client map
HubUnregisterAll(c) ==
  /\ hubPc = "select"
  /\ rp[c] = "unreg"
  /\ clients' = {}
  /\ closes' = [d \in Conns |-> IF d \in clients THEN closes[d] + 1
                                ELSE closes[d]]
  /\ rp' = [rp EXCEPT ![c] = "done"]
  /\ connOpen' = [connOpen EXCEPT ![c] = FALSE]
  /\ UNCHANGED <<storeVars, procVars, send, hubPc, hubMsg, hubTodo, hubLog,
                 cstate, wp>>

\* Hub.run, case client := <-h.unregister, met by readPump's deferred send;
\* readPump then closes the websocket
HubUnregister(c) ==
  /\ hubPc = "select"
  /\ rp[c] = "unreg"
  /\ IF c \in clients
     THEN /\ clients' = clients \ {c}
          /\ closes' = [closes EXCEPT ![c] = @ + 1]
     ELSE UNCHANGED <<clients, closes>>
  /\ rp' = [rp EXCEPT ![c] = "done"]
  /\ connOpen' = [connOpen EXCEPT ![c] = FALSE]
  /\ UNCHANGED <<storeVars, procVars, send, hubPc, hubMsg, hubTodo, hubLog,
                 cstate, wp>>

\* ------------------------------------------------------------ connections

\* handleWebSocket: the upgrade, then the new Client offered on hub.register.
\* A failed upgrade returns before any Client exists. Connections are
\* interchangeable, so they are opened in order.
Dial(c, upgraded) ==
  /\ cstate[c] = "new"
  /\ \A d \in Conns : cstate[d] = "new" => c <= d
  /\ IF upgraded
     THEN /\ cstate' = [cstate EXCEPT ![c] = "registering"]
          /\ connOpen' = [connOpen EXCEPT ![c] = TRUE]
     ELSE UNCHANGED <<cstate, connOpen>>
  /\ UNCHANGED <<storeVars, procVars, hubVars, rp, wp>>

\* (mutant) a readPump that deletes its client from the map and closes the
\* queue itself instead of asking the hub
ReadErrPeerDirect(c) ==
  /\ rp[c] = "read"
  /\ connOpen[c]
  /\ rp' = [rp EXCEPT ![c] = "done"]
  /\ clients' = clients \ {c}
  /\ closes' = [closes EXCEPT ![c] = IF c \in clients THEN @ + 1 ELSE @]
  /\ connOpen' = [connOpen EXCEPT ![c] = FALSE]
  /\ UNCHANGED <<storeVars, procVars, send, hubPc, hubMsg, hubTodo, hubLog,
                 cstate, wp>>

\* readPump: ReadMessage fails (the peer closed or went silent past the read
\* deadline); the deferred function offers the client on hub.unregister
ReadErrPeer(c) ==
  /\ rp[c] = "read"
  /\ connOpen[c]
  /\ rp' = [rp EXCEPT ![c] = "unreg"]
  /\ UNCHANGED <<storeVars, procVars, hubVars, cstate, wp, connOpen>>

\* readPump: ReadMessage fails because writePump closed the websocket
ReadErrClosed(c) ==
  /\ rp[c] = "read"
  /\ ~connOpen[c]
  /\ rp' = [rp EXCEPT ![c] = "unreg"]
  /\ UNCHANGED <<storeVars, procVars, hubVars, cstate, wp, connOpen>>

\* writePump, case message, ok := <-c.send with ok: the message is written,
\* or the write fails and writePump returns, closing the websocket
WriteMsg(c, written) ==
  /\ wp[c] = "run"
  /\ send[c] # << >>
  /\ send' = [send EXCEPT ![c] = Tail(@)]
  /\ IF written /\ connOpen[c]
     THEN UNCHANGED <<wp, connOpen>>
     ELSE /\ wp' = [wp EXCEPT ![c] = "done"]
          /\ connOpen' = [connOpen EXCEPT ![c] = FALSE]
  /\ UNCHANGED <<storeVars, procVars, clients, closes, hubPc, hubMsg, hubTodo,
                 hubLog, cstate, rp>>

\* writePump, case message, ok := <-c.send with !ok: the channel is closed
\* and drained; a close frame is written and writePump returns
WriteClosed(c) ==
  /\ wp[c] = "run"
  /\ send[c] = << >>
  /\ closes[c] > 0
  /\ wp' = [wp EXCEPT ![c] = "done"]
  /\ connOpen' = [connOpen EXCEPT ![c] = FALSE]
  /\ UNCHANGED <<storeVars, procVars, hubVars, cstate, rp>>

\* (mutant) a writePump that returns on a failed ping without closing the
\* websocket
PingFailKeepsOpen(c) ==
  /\ wp[c] = "run"
  /\ wp' = [wp EXCEPT ![c] = "done"]
  /\ UNCHANGED <<storeVars, procVars, hubVars, cstate, rp, connOpen>>

\* writePump, case <-ticker.C: the ping fails and writePump returns
PingFail(c) ==
  /\ wp[c] = "run"
  /\ wp' = [wp EXCEPT ![c] = "done"]
  /\ connOpen' = [connOpen EXCEPT ![c] = FALSE]
  /\ UNCHANGED <<storeVars, procVars, hubVars, cstate, rp>>

\* broadcastUpdate called by some handler: the message is marshalled and
\* offered on hub.broadcast. The payload is the number of the call, so that
\* every message differs from the others.
BroadcastUpdate(p) ==
  /\ pc[p] = "idle"
  /\ calls < MaxSends
  /\ calls' = calls + 1
  /\ pc' = [pc EXCEPT ![p] = "send"]
  /\ loc' = [loc EXCEPT ![p].msg = [NoMsg EXCEPT !.type = "leaderboard-update",
                                                 !.entries = <<calls + 1>>],
                        ![p].ret = "idle"]
  /\ UNCHANGED <<req, resp, entries, pre, solo, failed, storeVars, hubVars,
               connVars>>

\* --------------------------------------------------------- specifications

\* the ledger: requests against the store, their broadcasts taken by the hub
Next ==
  \/ \E p \in Procs, b \in SubmitBodies : SubmitCall(p, b)
  \/ \E p \in Procs : SubmitRecompute(p)
  \/ \E p \in Procs : SubmitLog(p)
  \/ \E p \in Procs, ck \in Cookies, id \in IdTokens : ApproveCall(p, ck, id)
  \/ \E p \in Procs : ApproveUpdateSub(p)
  \/ \E p \in Procs : ApproveUpdateWard(p)
  \/ \E p \in Procs : AchRead(p)
  \/ \E p \in Procs : AchStep(p)
  \/ \E p \in Procs : ApproveLog(p)
  \/ \E p \in Procs, ck \in Cookies, id \in IdTokens : RejectCall(p, ck, id)
  \/ \E p \in Procs : RejectUpdateSub(p)
  \/ \E p \in Procs : RejectUpdateWard(p)
  \/ \E p \in Procs : LeaderboardQuery(p)
  \/ \E p \in Procs : HubBroadcast(p)

Spec == Init /\ [][Next]_vars

\* the hub: connections, their pumps, and broadcasts of either type
NextHub ==
  \/ \E c \in Conns, ok \in BOOLEAN : Dial(c, ok)
  \/ \E c \in Conns : HubRegister(c)
  \/ \E c \in Conns : HubUnregister(c)
  \/ \E c \in Conns : HubRange(c)
  \/ \E c \in Conns : ReadErrPeer(c)
  \/ \E c \in Conns : ReadErrClosed(c)
  \/ \E c \in Conns, ok \in BOOLEAN : WriteMsg(c, ok)
  \/ \E c \in Conns : WriteClosed(c)
  \/ \E c \in Conns : PingFail(c)
  \/ \E p \in Procs : BroadcastUpdate(p)
  \/ \E p \in Procs : HubBroadcast(p)

SpecHub == Init /\ [][NextHub]_vars

\* one step of the hub goroutine: a round of its loop over the connections,
\* or a receive of its select from a goroutine blocked on one of its channels
HubStep ==
  \/ \E c \in Conns : HubRange(c)
  \/ \E c \in Conns : HubRegister(c)
  \/ \E c \in Conns : HubUnregister(c)
  \/ \E p \in Procs : HubBroadcast(p)

\* the hub specification under fair scheduling of the hub goroutine: it is
\* not left waiting for the processor while it has a step to take. (Which
\* ready channel its select takes is left open: the requests of a behaviour
\* are finitely many.)
FairHub == WF_vars(HubStep)

SpecHubFair == Init /\ [][NextHub]_vars /\ FairHub

\* fair scheduling of the read pumps: a readPump whose ReadMessage has an
\* error to return, the websocket being closed, is not left waiting for the
\* processor forever
FairPumps == \A c \in Conns : WF_vars(ReadErrClosed(c))

SpecConnFair == Init /\ [][NextHub]_vars /\ FairHub /\ FairPumps

\* a store at rest whose cached pending total has drifted from the ledger:
\* the one Spec is left with when a Submit of 60 points to ward 1 (row 13)
\* has its recompute run between the two updates of the admin's Reject of
\* row 13
DriftedStore ==
  /\ subs = Append(sampleSubmissions,
                   [ward_id |-> 1, submitter_name |-> "Ann", points |-> 60,
                    status |-> "rejected", approved_by |-> 1])
  /\ wards = [SeedWards(sampleSubmissions) EXCEPT
                ![1] = RejectWardRow(@, 60)]
  /\ achievements = seedAchievements
  /\ activity_logs = <<LogRow(1, NULL, "points_submitted", 60)>>

InitSubmit ==
  /\ InitStore \/ DriftedStore
  /\ InitProcs /\ InitHub /\ InitConns

\* Submit requests only: no Approve and no Reject is ever in flight
NextSubmit ==
  \/ \E p \in Procs, b \in SubmitBodies : SubmitCall(p, b)
  \/ \E p \in Procs : SubmitRecompute(p)
  \/ \E p \in Procs : SubmitLog(p)
  \/ \E p \in Procs : LeaderboardQuery(p)
  \/ \E p \in Procs : HubBroadcast(p)

SpecSubmit == InitSubmit /\ [][NextSubmit]_vars


\* the store at rest after one Submit of 160 points to ward 4 on the seeded
\* database: ward 4 has two pending submissions, rows 8 and 13
TwoPendingSubs ==
  Append(sampleSubmissions,
         [ward_id |-> 4, submitter_name |-> "Ann", points |-> 160,
          status |-> "pending", approved_by |-> NULL])

TwoPendingWards ==
  [SeedWards(sampleSubmissions) EXCEPT
     ![4] = SubmitWardRow(@, TwoPendingSubs, 4)]

TwoPendingStore ==
  /\ subs = TwoPendingSubs
  /\ wards = TwoPendingWards
  /\ achievements = seedAchievements
  /\ activity_logs = <<LogRow(4, NULL, "points_submitted", 160)>>

InitApprove == TwoPendingStore /\ InitProcs /\ InitHub /\ InitConns

\* Approve requests only: no Submit and no Reject is ever in flight
NextApprove ==
  \/ \E p \in Procs, ck \in Cookies, id \in IdTokens : ApproveCall(p, ck, id)
  \/ \E p \in Procs : ApproveUpdateSub(p)
  \/ \E p \in Procs : ApproveUpdateWard(p)
  \/ \E p \in Procs : AchRead(p)
  \/ \E p \in Procs : AchStep(p)
  \/ \E p \in Procs : ApproveLog(p)
  \/ \E p \in Procs : LeaderboardQuery(p)
  \/ \E p \in Procs : HubBroadcast(p)

SpecApprove == InitApprove /\ [][NextApprove]_vars

\* a database file the server is started on that already holds the wards
\* (seedData returns as soon as it finds one): the seeded ledger, except that
\* ward 5 has no approved submission yet and two pending ones of 50 points,
\* rows 6 and 13
YoungWardSubs ==
  Append([sampleSubmissions EXCEPT ![6] = SeedSub(5, 50, "pending")],
         SeedSub(5, 50, "pending"))

YoungWardStore ==
  /\ subs = YoungWardSubs
  /\ wards = SeedWards(YoungWardSubs)
  /\ achievements = seedAchievements
  /\ activity_logs = << >>

InitAch == YoungWardStore /\ InitProcs /\ InitHub /\ InitConns

\* {id} path variables tried against that ledger: the two pending rows of
\* ward 5 and the pending row of ward 4
AchIdTokens == { <<6>>, <<1, 3>>, <<8>> }

\* Approve requests by the admin, and the achievement evaluation they run
NextAch ==
  \/ \E p \in Procs, id \in AchIdTokens : ApproveCall(p, <<1>>, id)
  \/ \E p \in Procs : ApproveUpdateSub(p)
  \/ \E p \in Procs : ApproveUpdateWard(p)
  \/ \E p \in Procs : AchRead(p)
  \/ \E p \in Procs : AchStep(p)
  \/ \E p \in Procs : ApproveLog(p)
  \/ \E p \in Procs : LeaderboardQuery(p)
  \/ \E p \in Procs : HubBroadcast(p)

SpecAch == InitAch /\ [][NextAch]_vars

\* the ledger with a viewer: requests by the admin (a valid Submit, Approve
\* and Reject of row 8) while one websocket connection is dialled,
\* registered, written to, failing and dropped
Viewer == 1

NextViewer ==
  \/ \E p \in Procs : SubmitCall(p, Body(TRUE, 4, "Ann", 160))
  \/ \E p \in Procs : SubmitRecompute(p)
  \/ \E p \in Procs : SubmitLog(p)
  \/ \E p \in Procs : ApproveCall(p, <<1>>, <<8>>)
  \/ \E p \in Procs : ApproveUpdateSub(p)
  \/ \E p \in Procs : ApproveUpdateWard(p)
  \/ \E p \in Procs : AchRead(p)
  \/ \E p \in Procs : AchStep(p)
  \/ \E p \in Procs : ApproveLog(p)
  \/ \E p \in Procs : RejectCall(p, <<1>>, <<8>>)
  \/ \E p \in Procs : RejectUpdateSub(p)
  \/ \E p \in Procs : RejectUpdateWard(p)
  \/ \E p \in Procs : LeaderboardQuery(p)
  \/ \E p \in Procs : HubBroadcast(p)
  \/ \E ok \in BOOLEAN : Dial(Viewer, ok)
  \/ HubRegister(Viewer)
  \/ HubUnregister(Viewer)
  \/ HubRange(Viewer)
  \/ ReadErrPeer(Viewer)
  \/ ReadErrClosed(Viewer)
  \/ \E ok \in BOOLEAN : WriteMsg(Viewer, ok)
  \/ WriteClosed(Viewer)
  \/ PingFail(Viewer)

SpecViewer == Init /\ [][NextViewer]_vars

\* the sort parameters tried: the six the switch knows, none, and one it
\* does not know
SortKeys ==
  { "verified-desc", "verified-asc", "total-desc", "total-asc", "ward-asc",
    "ward-desc", "", "points" }

\* verified totals tried for the first three wards and pending totals tried
\* for the first: equal values, a total that ranks a ward above one with
\* more verified points, and half of the goal
Varied == {1, 2, 3}
Pended == {1}
StandingsVerified == {0, 200, 650}
StandingsPending == {0, 650}

\* the submissions behind such totals, ward by ward
RECURSIVE StandingsSubs(_, _, _)
StandingsSubs(v, pd, n) ==
  IF n = 0 THEN << >>
  ELSE StandingsSubs(v, pd, n - 1)
       \o (IF n \notin Varied
           THEN SelectSeq(sampleSubmissions, LAMBDA s : s.ward_id = n)
           ELSE (IF v[n] > 0 THEN <<SeedSub(n, v[n], "approved")>>
                 ELSE << >>)
                \o (IF n \in Pended /\ pd[n] > 0
                    THEN <<SeedSub(n, pd[n], "pending")>>
                    ELSE << >>))

\* a database file the server is started on that holds the seven wards, the
\* sample rows of wards 4 to 7, at most one approved submission for each of
\* wards 1 to 3 and at most one pending one for ward 1, with the totals at
\* rest
InitStandings ==
  /\ \E v \in [Varied -> StandingsVerified],
        pd \in [Pended -> StandingsPending] :
       /\ subs = StandingsSubs(v, pd, NumWards)
       /\ wards = SeedWards(StandingsSubs(v, pd, NumWards))
  /\ achievements = seedAchievements
  /\ activity_logs = << >>
  /\ InitProcs /\ InitHub /\ InitConns

\* GET /api/leaderboard requests only
NextStandings ==
  \E p \in Procs, sort \in SortKeys : handleGetLeaderboard(p, sort)

SpecStandings == InitStandings /\ [][NextStandings]_vars

\* the handlers on a store whose writes may fail: every db.Exec of Submit,
\* Approve and Reject either takes effect or returns an error
NextFault ==
  \/ Next
  \/ \E p \in Procs, b \in SubmitBodies : SubmitInsertFails(p, b)
  \/ \E p \in Procs : SubmitRecomputeFails(p)
  \/ \E p \in Procs : SubmitLogFails(p)
  \/ \E p \in Procs : ApproveUpdateSubFails(p)
  \/ \E p \in Procs : ApproveUpdateWardFails(p)
  \/ \E p \in Procs : AchStepFails(p)
  \/ \E p \in Procs : ApproveLogFails(p)
  \/ \E p \in Procs : RejectUpdateSubFails(p)
  \/ \E p \in Procs : RejectUpdateWardFails(p)

SpecFault == Init /\ [][NextFault]_vars

\* ----------------------------------------------------------------- claims

Done(p) == pc[p] = "done"
IsReview(r) == r.op \in {"approve", "reject"}
SubOf(r) == Atoi(r.idtok).val
UserOf(r) == getUserIDFromSession(r.cookie)

\* the request p serves starts in this step
Starts(p) == calls' = calls + 1 /\ req'[p].n = calls + 1

\* C1: in every reachable state, intermediate states of running handlers
\* included, every ward's cached verified total is the sum of the points of
\* its approved submissions and its cached pending total the sum of the
\* points of its pending submissions.
C1_TotalsMatchLedger ==
  \A w \in WardIds :
    /\ wards[w].points = SumPoints(subs, w, "approved")
    /\ wards[w].pending_points = SumPoints(subs, w, "pending")

\* C1 at rest: the same with no request in flight (the drift is not only
\* the passing one of a handler between two of its statements).
C1_TotalsMatchAtRest ==
  (\A p \in Procs : ~Active(p)) => C1_TotalsMatchLedger

\* C2: of two finished Approve/Reject calls on the same submission, both by
\* approvers authorized for its ward, once one has returned success the
\* other has returned NotFound (exactly one winner).
C2_ExactlyOneWinner ==
  \A p, q \in Procs :
    ( /\ p # q /\ Done(p) /\ Done(q)
      /\ IsReview(req[p]) /\ IsReview(req[q])
      /\ ~Atoi(req[p].idtok).err
      /\ SubOf(req[p]) \in 1..Len(subs)
      /\ SubOf(req[q]) = SubOf(req[p]) /\ ~Atoi(req[q].idtok).err
      /\ canApproveForWard(UserOf(req[p]), subs[SubOf(req[p])].ward_id)
      /\ canApproveForWard(UserOf(req[q]), subs[SubOf(req[p])].ward_id)
      /\ resp[p] = "200" )
    => resp[q] = "404"

\* C3: once a submission is approved or rejected, its status and its
\* recorded approver never change again.
C3_TerminalImmutable ==
  [][ \A x \in 1..Len(subs) :
        subs[x].status # "pending" =>
          /\ subs'[x].status = subs[x].status
          /\ subs'[x].approved_by = subs[x].approved_by ]_vars


\* C4: when an Approve of x has returned success and another Approve of x
\* then starts, by any authenticated identity, that call returns NotFound
\* and changes no ward total, no submission, no achievement, no activity
\* log row, and nothing is broadcast.
C4_SecondApproveNotFound ==
  [][ \A p, q \in Procs :
        ( /\ p # q /\ Done(q) /\ req[q].op = "approve" /\ resp[q] = "200"
          /\ Starts(p) /\ req'[p].op = "approve"
          /\ req'[p].idtok = req[q].idtok
          /\ UserOf(req'[p]) # 0 )
        => /\ resp'[p] = "404"
           /\ pc'[p] = "done"
           /\ UNCHANGED <<wards, subs, achievements, activity_logs, hubLog,
                          send>> ]_vars

\* a second Approve of x, by an identity with no users row, started with no
\* request in flight after the first had succeeded, and was answered 404
C4_Witness ==
  \E p, q \in Procs :
    /\ p # q /\ Done(p) /\ Done(q)
    /\ req[q].op = "approve" /\ resp[q] = "200"
    /\ req[p].op = "approve" /\ req[p].idtok = req[q].idtok
    /\ req[p].n > req[q].n /\ req[p].quiet
    /\ UserOf(req[p]) = 3
    /\ resp[p] = "404"

C6_AchievementsUnique ==
  /\ [](\A i, j \in 1..Len(achievements) :
          (achievements[i].ward_id = achievements[j].ward_id
           /\ achievements[i].type = achievements[j].type) => i = j)
  /\ [][ /\ Len(achievements') >= Len(achievements)
         /\ \A k \in 1..Len(achievements) :
              achievements'[k] = achievements[k] ]_vars

\* two Approve handlers evaluate the same ward at once, both past the insert
\* of its first achievement type
C6_Witness ==
  \E p, q \in Procs :
    /\ p # q
    /\ req[p].op = "approve" /\ req[q].op = "approve"
    /\ loc[p].wardID # 0 /\ loc[p].wardID = loc[q].wardID
    /\ loc[p].i >= 2 /\ loc[q].i >= 2

\* C7: a Submit with points <= 0, an empty submitter name or ward id 0 is
\* answered 400 and has no effect: no row, no ward total, no activity log,
\* no broadcast.
C7_InvalidSubmitNoEffect ==
  [][ \A p \in Procs :
        ( /\ Starts(p) /\ req'[p].op = "submit"
          /\ \/ req'[p].body.points <= 0
             \/ req'[p].body.submitter_name = ""
             \/ req'[p].body.ward_id = 0 )
        => /\ resp'[p] = "400"
           /\ pc'[p] = "done"
           /\ UNCHANGED <<wards, subs, achievements, activity_logs, hubLog,
                          send>> ]_vars

\* a well-formed Submit for an existing ward with points <= 0 was answered
C7_Witness ==
  \E p \in Procs :
    /\ Done(p) /\ req[p].op = "submit"
    /\ req[p].body.json_ok
    /\ req[p].body.ward_id \in WardIds
    /\ req[p].body.submitter_name # ""
    /\ req[p].body.points <= 0
    /\ resp[p] = "400"


\* C8: when the hub broadcasts an event, every registered connection whose
\* queue is not full gets the event appended, every registered connection
\* whose queue is full is removed from the live set and has its queue
\* closed, and the loop visits every registered connection whatever
\* happened to the ones before it.
C8_BroadcastDropsOnlyFull ==
  [][ /\ \* the loop starts over all the registered connections
         (hubLog' # hubLog) => (hubTodo' = clients /\ hubMsg' = hubLog'[Len(hubLog')])
      /\ \* it ends only when none is left to visit
         (hubPc = "range" /\ hubPc' = "select") => hubTodo' = {}
      /\ (hubPc = "range" /\ hubPc' = "range") => hubTodo' # {}
      /\ (hubPc = "range")
           => (hubTodo' \subseteq hubTodo /\ hubTodo \subseteq clients
               /\ Cardinality(hubTodo \ hubTodo') <= 1)
      /\ \A c \in Conns :
           (hubPc = "range" /\ c \in hubTodo /\ c \notin hubTodo')
           => /\ IF Len(send[c]) < SendCap
                 THEN /\ send'[c] = Append(send[c], hubMsg)
                      /\ c \in clients'
                      /\ closes'[c] = closes[c]
                 ELSE /\ c \notin clients'
                      /\ closes'[c] = closes[c] + 1
                      /\ send'[c] = send[c]
              /\ \A d \in Conns \ {c} :
                   /\ send'[d] = send[d]
                   /\ closes'[d] = closes[d]
                   /\ (d \in clients') = (d \in clients) ]_vars

\* one broadcast dropped a connection with a full queue (its readPump still
\* reads: no unregister closed it) and delivered the event to another
C8_Witness ==
  \E c, d \in Conns :
    /\ c # d
    /\ hubPc = "select"
    /\ hubMsg.type = "leaderboard-update"
    /\ c \notin clients /\ closes[c] = 1 /\ rp[c] = "read"
    /\ Len(send[c]) = SendCap /\ hubMsg # send[c][Len(send[c])]
    /\ d \in clients /\ send[d] # << >> /\ send[d][Len(send[d])] = hubMsg

\* C9: a successful Approve(x) by u that no other request interfered with
\* has set x to approved with approver u, added x.points to the verified
\* total of x's ward and taken them off its pending total, and changed no
\* other ward and no other submission.
C9_ApproveEffect ==
  [][ \A p \in Procs :
        ( /\ pc[p] = "send" /\ pc'[p] = "done"
          /\ req[p].op = "approve" /\ solo[p] )
        => LET x == SubOf(req[p])
               w == pre[p].subs[x].ward_id
               pts == pre[p].subs[x].points
           IN
           /\ resp'[p] = "200"
           /\ pre[p].subs[x].status = "pending"
           /\ subs' = [pre[p].subs EXCEPT ![x].status = "approved",
                                          ![x].approved_by = UserOf(req[p])]
           /\ wards' = [pre[p].wards EXCEPT
                          ![w].points = @ + pts,
                          ![w].pending_points = @ - pts] ]_vars

\* an Approve nobody interfered with has returned success
C9_Witness ==
  \E p \in Procs :
    /\ Done(p) /\ req[p].op = "approve" /\ resp[p] = "200" /\ solo[p]
    /\ subs[SubOf(req[p])].status = "approved"

\* a step of the Reject request p serves
RejectStep(p) == req[p].op = "reject" /\ Active(p) /\ pc'[p] # pc[p]

\* C10: a successful Reject(x) sets x to rejected, takes x.points off the
\* pending total of x's ward, leaves every verified total alone, creates no
\* achievement row, sends no `achievement` event, and broadcasts one
\* leaderboard-update before it answers; run without interference, that is
\* all the store shows of it.
C10_RejectEffect ==
  [][ \A p \in Procs :
        LET x == SubOf(req[p]) IN
        /\ RejectStep(p)
           => /\ \A w \in WardIds : wards'[w].points = wards[w].points
              /\ achievements' = achievements
              /\ pc'[p] = "send"
                   => loc'[p].msg.type = "leaderboard-update"
              /\ pc'[p] = "done"
                   => /\ resp'[p] = "200"
                      /\ hubLog' = Append(hubLog, loc[p].msg)
                      /\ loc[p].msg.type = "leaderboard-update"
        /\ (RejectStep(p) /\ pc[p] = "r_update_sub")
           => /\ subs' = [subs EXCEPT ![x].status = "rejected",
                                      ![x].approved_by = UserOf(req[p])]
              /\ wards' = wards
        /\ (RejectStep(p) /\ pc[p] = "r_update_ward")
           => /\ wards' = [wards EXCEPT ![subs[x].ward_id].pending_points =
                                           @ - subs[x].points]
              /\ subs' = subs
        /\ (RejectStep(p) /\ pc'[p] = "done" /\ solo[p])
           => /\ pre[p].subs[x].status = "pending"
              /\ subs' = [pre[p].subs EXCEPT ![x].status = "rejected",
                                             ![x].approved_by = UserOf(req[p])]
              /\ wards' = [pre[p].wards EXCEPT
                             ![pre[p].subs[x].ward_id].pending_points =
                                @ - pre[p].subs[x].points] ]_vars

\* a Reject nobody interfered with has returned success
C10_Witness ==
  \E p \in Procs :
    /\ Done(p) /\ req[p].op = "reject" /\ resp[p] = "200" /\ solo[p]
    /\ subs[SubOf(req[p])].status = "rejected"
    /\ hubLog # << >>

\* the identity u may review submissions of ward w: an admin, or a ward
\* approver whose assigned ward is w
Authorized(u, w) ==
  /\ u \in DOMAIN seedUsers
  /\ \/ seedUsers[u].role = "admin"
     \/ seedUsers[u].role = "ward_approver" /\ seedUsers[u].ward_id = w

\* C11: an Approve or Reject of a pending submission x goes on to its
\* updates, and answers success, only for an admin or a ward approver
\* assigned to x's ward; for any other identity it answers Forbidden and x
\* stays pending, no ward total changes, no activity-log or achievement row
\* is written and nothing is broadcast.
C11_ReviewNeedsAuthority ==
  [][ \A p \in Procs :
        LET r == req'[p]
            x == SubOf(r)
        IN
        /\ ( /\ Starts(p) /\ IsReview(r)
             /\ UserOf(r) # 0 /\ ~Atoi(r.idtok).err
             /\ SelectPending(subs, x) )
           => IF Authorized(UserOf(r), subs[x].ward_id)
              THEN pc'[p] \in {"a_update_sub", "r_update_sub"}
              ELSE /\ resp'[p] = "403"
                   /\ pc'[p] = "done"
                   /\ subs'[x].status = "pending"
                   /\ UNCHANGED <<wards, subs, achievements, activity_logs,
                                  hubLog, send>>
        /\ ( /\ IsReview(r)
             /\ \/ resp'[p] = "200" /\ resp[p] # "200"
                \/ Active(p)' )
           => Authorized(UserOf(r), subs'[x].ward_id) ]_vars

\* the approver of ward 1 asked for a review of a pending submission of
\* another ward and was refused
C11_Witness ==
  \E p \in Procs :
    /\ Done(p) /\ IsReview(req[p]) /\ resp[p] = "403"
    /\ UserOf(req[p]) = 2
    /\ subs[SubOf(req[p])].status = "pending"
    /\ subs[SubOf(req[p])].ward_id # seedUsers[2].ward_id

\* the state DriftedStore describes is one Spec reaches
DriftedStoreUnreached == ~(DriftedStore /\ Quiet)

\* the row a Submit of body b inserts
PendingRow(b) ==
  [ward_id |-> b.ward_id, submitter_name |-> b.submitter_name,
   points |-> b.points, status |-> "pending", approved_by |-> NULL]

\* C12: a valid Submit for ward w inserts one pending submission and then
\* sets w's cached pending total to the sum of the points of w's pending
\* submissions; run without interference, the store after the call is the
\* store before it with that one row added and w's pending total equal to
\* the ledger's sum, whatever it was before; verified totals and the other
\* wards are as they were.
C12_SubmitRecomputes ==
  [][ \A p \in Procs :
        LET b == req'[p].body
            w == b.ward_id
        IN
        /\ (Starts(p) /\ req'[p].op = "submit" /\ Active(p)')
           => /\ subs' = Append(subs, PendingRow(b))
              /\ wards' = wards
        /\ (pc[p] = "s_recompute" /\ pc'[p] # pc[p])
           => /\ wards' = [wards EXCEPT
                   ![w].pending_points = SumPoints(subs, w, "pending")]
              /\ subs' = subs
        /\ ( /\ pc[p] = "send" /\ pc'[p] = "done"
             /\ req[p].op = "submit" /\ solo[p] )
           => /\ resp'[p] = "200"
              /\ subs' = Append(pre[p].subs, PendingRow(b))
              /\ wards' = [pre[p].wards EXCEPT
                   ![w].pending_points = SumPoints(subs', w, "pending")] ]_vars

\* a Submit to ward 1 ran alone on the store whose pending total of ward 1
\* had drifted, and left it equal to the ledger's sum
C12_Witness ==
  \E p \in Procs :
    /\ Len(subs) > Len(sampleSubmissions)
    /\ subs[Len(sampleSubmissions) + 1].status = "rejected"
    /\ Done(p) /\ req[p].op = "submit" /\ resp[p] = "200" /\ solo[p]
    /\ req[p].body.ward_id = 1
    /\ calls = 1
    /\ wards[1].pending_points = SumPoints(subs, 1, "pending")
    /\ wards[1].pending_points # -35 + req[p].body.points

\* C13: with Submit requests only, whatever the interleaving of their
\* inserts and recomputes, once none is in flight the cached pending total
\* of every ward a successful Submit went to equals the sum of the points
\* of that ward's pending submissions.
C13_ConcurrentSubmitsAgree ==
  Quiet =>
    \A p \in Procs :
      (Done(p) /\ req[p].op = "submit" /\ resp[p] = "200")
      => wards[req[p].body.ward_id].pending_points =
           SumPoints(subs, req[p].body.ward_id, "pending")

\* two Submits to the same ward have finished, each having written the
\* store while the other was in flight
C13_Witness ==
  /\ Quiet
  /\ \A p \in Procs :
       /\ Done(p) /\ req[p].op = "submit" /\ resp[p] = "200" /\ ~solo[p]
       /\ req[p].body.ward_id = 1
  /\ Len(subs) = Len(sampleSubmissions) + 2

\* the state TwoPendingStore describes is one Spec reaches
TwoPendingStoreUnreached == ~(TwoPendingStore /\ Quiet)

\* the submissions approved since the store of InitApprove
NewlyApproved ==
  {x \in 1..Len(subs) :
     subs[x].status = "approved" /\ TwoPendingSubs[x].status = "pending"}

\* the successful Approve calls so far that have written their log row
ApprovalsLogged ==
  Cardinality({k \in 1..Len(activity_logs) :
                 activity_logs[k].action = "points_approved"})

\* C14: with Approve requests only, when the successful ones were for
\* distinct pending submissions, no update of a ward's totals is lost
\* whatever the interleaving: once none is in flight, each ward's verified
\* total has grown by the sum of the approved amounts and its pending total
\* has shrunk by the same sum.
C14_NoLostUpdate ==
  (Quiet /\ ApprovalsLogged = Cardinality(NewlyApproved))
  => \A w \in WardIds :
       LET grown == SumPoints(subs, w, "approved")
                      - SumPoints(TwoPendingSubs, w, "approved")
       IN
       /\ wards[w].points = TwoPendingWards[w].points + grown
       /\ wards[w].pending_points = TwoPendingWards[w].pending_points - grown

\* two Approves, of rows 8 and 13 of ward 4, have finished, each having
\* written the store while the other was in flight
C14_Witness ==
  /\ Quiet
  /\ ApprovalsLogged = 2 /\ NewlyApproved = {8, 13}
  /\ \A p \in Procs :
       Done(p) /\ req[p].op = "approve" /\ resp[p] = "200" /\ ~solo[p]
  /\ SubOf(req[1]) # SubOf(req[2])
  /\ wards[4].points = TwoPendingWards[4].points + 210

\* how far a Submit or an Approve has come: its statements in the order of
\* the handler's text, the achievement loop and its broadcasts being one
\* stage
Progress(pcv, ret) ==
  CASE pcv \in {"s_recompute", "a_update_sub"} -> 1
    [] pcv = "a_update_ward" -> 2
    [] pcv = "a_ach_read" -> 3
    [] pcv = "a_ach" \/ (pcv = "send" /\ ret = "a_ach") -> 4
    [] pcv \in {"s_log", "a_log"} -> 5
    [] pcv = "lb_query" -> 6
    [] pcv = "send" /\ ret = "respond" -> 7
    [] pcv = "done" -> 8
    [] OTHER -> 0

\* the request p serves takes this step
Steps(p) == Active(p) /\ (pc'[p] # pc[p] \/ loc'[p] # loc[p])

LeaderboardUpdates(log) ==
  Cardinality({k \in 1..Len(log) : log[k].type = "leaderboard-update"})

\* C15: a Submit or an Approve that succeeds passes its logActivity call
\* once, which appends one activity-log row for the submission's ward with
\* the submission's points, then passes its leaderboard-update broadcast
\* once, and answers; no other step of it writes the log or sends a
\* leaderboard-update, and the log only ever grows by appended rows.
C15_OneLogRowOneUpdate ==
  [][ /\ \/ activity_logs' = activity_logs
         \/ /\ Len(activity_logs') = Len(activity_logs) + 1
            /\ SubSeq(activity_logs', 1, Len(activity_logs)) = activity_logs
            /\ \E p \in Procs : Steps(p) /\ pc[p] \in {"s_log", "a_log"}
      /\ \A p \in Procs :
           (Starts(p) /\ req'[p].op \in {"submit", "approve"})
           => /\ Progress(pc'[p], loc'[p].ret) \in {1, 8}
              /\ resp'[p] # "200"
              /\ hubLog' = hubLog
      /\ \A p \in Procs :
           (Steps(p) /\ req[p].op \in {"submit", "approve"})
           => LET x == loc[p].subID
                  before == Progress(pc[p], loc[p].ret)
                  after == Progress(pc'[p], loc'[p].ret)
              IN
              /\ after >= before
              /\ after <= 5 \/ before >= 5
              /\ IF before = 5
                 THEN /\ after = 6
                      /\ activity_logs' = Append(activity_logs,
                           LogRow(subs[x].ward_id,
                                  IF req[p].op = "submit" THEN NULL
                                  ELSE UserOf(req[p]),
                                  IF req[p].op = "submit"
                                  THEN "points_submitted"
                                  ELSE "points_approved",
                                  subs[x].points))
                      /\ req[p].op = "submit"
                           => /\ subs[x].ward_id = req[p].body.ward_id
                              /\ subs[x].points = req[p].body.points
                      /\ req[p].op = "approve" => x = SubOf(req[p])
                 ELSE activity_logs' = activity_logs
              /\ IF before = 7
                 THEN /\ after = 8
                      /\ resp'[p] = "200"
                      /\ LeaderboardUpdates(hubLog') =
                           LeaderboardUpdates(hubLog) + 1
                 ELSE /\ LeaderboardUpdates(hubLog') =
                           LeaderboardUpdates(hubLog)
                      /\ resp'[p] = "none"
              /\ before = 6 => after = 7 ]_vars

\* a Submit and an Approve have both succeeded: two log rows, two
\* leaderboard-update broadcasts
C15_Witness ==
  /\ Quiet
  /\ \E p, q \in Procs :
       /\ Done(p) /\ req[p].op = "submit" /\ resp[p] = "200"
       /\ Done(q) /\ req[q].op = "approve" /\ resp[q] = "200"
  /\ Len(activity_logs) = 2
  /\ activity_logs[1].action # activity_logs[2].action
  /\ LeaderboardUpdates(hubLog) = 2

\* the threshold types and what a row or a broadcast of one stands for
ThresholdTypes == {AchTable[k].aType : k \in 1..Len(AchTable)}
MinOfType(t) == AchTable[CHOOSE k \in 1..Len(AchTable) : AchTable[k].aType = t].min
MinOfTitle(ttl) == AchTable[CHOOSE k \in 1..Len(AchTable) : AchTable[k].title = ttl].min

RowsIn(A, w, t) ==
  Cardinality({k \in 1..Len(A) : A[k].ward_id = w /\ A[k].type = t})

BroadcastsOf(log, w, ttl) ==
  Cardinality({k \in 1..Len(log) : log[k] = AchMsg(w, ttl)})

\* no other request was in flight at any time since the request p serves
\* started
Alone(p) ==
  /\ req[p].quiet
  /\ \A q \in Procs \ {p} : ~Active(q) /\ req[q].n < req[p].n

C17_HubNeverBlocks ==
  /\ \A c \in Conns : (cstate[c] = "registering") ~> (cstate[c] = "running")
  /\ \A c \in Conns : (rp[c] = "unreg") ~> (rp[c] = "done")
  /\ \A p \in Procs : (pc[p] = "send") ~> (pc[p] # "send")
  /\ (hubPc = "range") ~> (hubPc = "select")
  /\ [](hubPc = "range"
          => /\ hubTodo # {}
             /\ \A c \in hubTodo : ENABLED HubRange(c))

\* the hub is back at its select after it dropped, in a broadcast, a
\* connection whose queue was full and whose writer had stopped, and after
\* it took that connection's unregister and every broadcast offered
C17_Witness ==
  \E c \in Conns :
    /\ hubPc = "select"
    /\ wp[c] = "done" /\ rp[c] = "done"
    /\ closes[c] = 1 /\ Len(send[c]) = SendCap
    /\ Len(hubLog) = MaxSends
    /\ \A p \in Procs : pc[p] # "send"

\* the store after the request r, started on the ledger S and the wards W
\* and run without interference, has succeeded
SubsAfter(r, S) ==
  CASE r.op = "submit" -> Append(S, PendingRow(r.body))
    [] r.op = "approve" -> UpdateStatus(S, SubOf(r), "approved", UserOf(r))
    [] r.op = "reject" -> UpdateStatus(S, SubOf(r), "rejected", UserOf(r))

WardsAfter(r, S, W) ==
  CASE r.op = "submit" ->
         [W EXCEPT ![r.body.ward_id].pending_points =
            SumPoints(SubsAfter(r, S), r.body.ward_id, "pending")]
    [] r.op = "approve" ->
         [W EXCEPT ![S[SubOf(r)].ward_id] =
            [points |-> @.points + S[SubOf(r)].points,
             pending_points |-> @.pending_points - S[SubOf(r)].points]]
    [] r.op = "reject" ->
         [W EXCEPT ![S[SubOf(r)].ward_id].pending_points =
            @ - S[SubOf(r)].points]

\* C18: a Submit, Approve or Reject that has offered its leaderboard-update
\* to the hub answers success as soon as the hub takes it, whatever the
\* viewer's queue and connection are like, and can always be taken when the
\* hub is at its select; nothing that happens to the viewer (a message
\* queued, a drop on a full queue, a failed write, an unregister) touches
\* the store or a request; so the store the request leaves, run without
\* interference, is the one its mutation made.
C18_UndeliveredStillSucceeds ==
  [][ /\ \A p \in Procs :
           /\ (pc[p] = "send" /\ hubPc = "select") => ENABLED HubBroadcast(p)
           /\ (pc[p] = "send" /\ loc[p].ret = "respond" /\ pc'[p] # "send")
              => /\ pc'[p] = "done"
                 /\ resp'[p] = "200"
                 /\ UNCHANGED storeVars
                 /\ solo[p]
                    => /\ subs = SubsAfter(req[p], pre[p].subs)
                       /\ wards = WardsAfter(req[p], pre[p].subs, pre[p].wards)
      /\ ( \/ send' # send \/ closes' # closes \/ clients' # clients
            \/ connVars' # connVars )
         => UNCHANGED <<storeVars, procVars>> ]_vars

\* an Approve has answered success and its update of the submission and of
\* the ward stands, although the viewer was dropped on a full queue by one
\* of its broadcasts
C18_Witness ==
  \E p \in Procs :
    /\ Done(p) /\ req[p].op = "approve" /\ resp[p] = "200"
    /\ calls = 1
    /\ closes[Viewer] = 1 /\ Viewer \notin clients /\ rp[Viewer] = "read"
    /\ subs[8].status = "approved"
    /\ wards[4] = ApproveWardRow(SeedWards(sampleSubmissions)[4], 50)

\* the hub takes the unregister of connection c in this step
TakesUnregister(c) == rp[c] = "unreg" /\ rp'[c] = "done"

\* C19: no connection's outbound queue is ever closed twice, whichever of
\* the drop on a full queue and the unregister of its readPump comes first;
\* an unregister for a connection that is no longer registered changes
\* neither the client map nor any queue.
C19_QueueClosedOnce ==
  /\ [](\A c \in Conns : closes[c] <= 1)
  /\ [][ \A c \in Conns :
           /\ closes'[c] # closes[c]
              => /\ closes[c] = 0 /\ closes'[c] = 1
                 /\ c \in clients /\ c \notin clients'
           /\ (TakesUnregister(c) /\ c \notin clients)
              => UNCHANGED <<clients, send, closes, hubTodo>> ]_vars

\* the hub, back at its select, has dropped a connection on a full queue
\* and closed its queue; the connection's readPump is offering its
\* unregister
C19_Witness ==
  \E c \in Conns :
    /\ hubPc = "select"
    /\ rp[c] = "unreg"
    /\ c \notin clients /\ closes[c] = 1
    /\ Len(send[c]) = SendCap

\* C20: the failure of one connection (its read fails, its ping or its
\* write fails) and the hub's handling of its unregister remove that
\* connection only: every other connection's registration, queue, pumps and
\* websocket are as they were.
C20_OnlyThatConnection ==
  [][ \A c \in Conns :
        ( \/ TakesUnregister(c)
          \/ rp[c] = "read" /\ rp'[c] = "unreg"
          \/ wp[c] = "run" /\ wp'[c] = "done" )
        => /\ \A d \in Conns \ {c} :
                /\ (d \in clients') = (d \in clients)
                /\ send'[d] = send[d]
                /\ closes'[d] = closes[d]
                /\ rp'[d] = rp[d] /\ wp'[d] = wp[d]
                /\ connOpen'[d] = connOpen[d]
           /\ TakesUnregister(c)
              => /\ c \notin clients'
                 /\ closes'[c] = 1
                 /\ send'[c] = send[c]
           /\ ~TakesUnregister(c) => clients' = clients ]_vars

\* a connection whose write failed has been unregistered while another
\* one is still registered, with its websocket open and a message queued
C20_Witness ==
  \E c, d \in Conns :
    /\ c # d
    /\ wp[c] = "done" /\ rp[c] = "done"
    /\ c \notin clients /\ closes[c] = 1
    /\ d \in clients /\ closes[d] = 0
    /\ connOpen[d] /\ rp[d] = "read" /\ wp[d] = "run"
    /\ send[d] # << >>

\* the stages of a connection, in their order
Stage(st) ==
  CASE st = "new" -> 0
    [] st = "registering" -> 1
    [] st = "running" -> 2

\* connection c has been registered and is registered no more
Unregistered(c) == cstate[c] = "running" /\ c \notin clients

\* C21: a connection goes from connecting to registering to registered and
\* never back; it enters the client map once, when the hub takes its
\* register; once out of the map, by unregister or by a drop on a full
\* queue, it never enters it again and nothing is put into its queue.
C21_ConnectionLifecycle ==
  [][ \A c \in Conns :
        /\ Stage(cstate'[c]) >= Stage(cstate[c])
        /\ Stage(cstate'[c]) <= Stage(cstate[c]) + 1
        /\ (c \in clients) => cstate[c] = "running"
        /\ (c \in clients' /\ c \notin clients)
           => /\ cstate[c] = "registering" /\ cstate'[c] = "running"
              /\ closes[c] = 0 /\ send[c] = << >>
        /\ Unregistered(c)
           => /\ Unregistered(c)'
              /\ closes[c] = 1 /\ closes'[c] = 1
              /\ \/ send'[c] = send[c]
                 \/ send[c] # << >> /\ send'[c] = Tail(send[c]) ]_vars

\* a connection that left the client map keeps, unwritten, the one event it
\* got while registered; a later event went to another connection only
C21_Witness ==
  \E c, d \in Conns :
    /\ c # d
    /\ Unregistered(c) /\ rp[c] = "done"
    /\ Len(hubLog) = 2 /\ hubPc = "select"
    /\ send[c] = <<hubLog[1]>>
    /\ d \in clients /\ send[d] = <<hubLog[2]>>
    /\ hubLog[1] # hubLog[2]

\* a finished GET /api/leaderboard request
Standings(p) == Done(p) /\ req[p].op = "leaderboard"

\* the sequence E is ordered by the sort key k
OrderedBy(E, k) ==
  \A i, j \in 1..Len(E) :
    i < j =>
      CASE k = "verified-asc" -> E[i].points <= E[j].points
        [] k = "total-desc" ->
             E[i].points + E[i].pending_points
               >= E[j].points + E[j].pending_points
        [] k = "total-asc" ->
             E[i].points + E[i].pending_points
               <= E[j].points + E[j].pending_points
        [] k = "ward-asc" -> BinaryLess(E[i].ward_name, E[j].ward_name)
        [] k = "ward-desc" -> BinaryLess(E[j].ward_name, E[i].ward_name)
        [] k = "verified-desc" -> E[i].points >= E[j].points

RecognizedKeys ==
  { "verified-desc", "verified-asc", "total-desc", "total-asc", "ward-asc",
    "ward-desc" }

\* C22: the standings hold exactly one entry per ward, each with the ward's
\* name and verified and pending totals and with total = verified + pending;
\* they are ordered by the sort key, by verified points (highest first) when
\* the key is empty or not one of the six, and the orders such a key admits
\* are those of verified-desc.
C22_StandingsSorted ==
  \A p \in Procs :
    Standings(p) =>
      LET E == entries[p]
          k == req[p].sort
      IN
      /\ Len(E) = NumWards
      /\ \A w \in WardIds :
           Cardinality({ i \in 1..Len(E) : E[i].ward_id = w }) = 1
      /\ \A i \in 1..Len(E) :
           /\ E[i].ward_id \in WardIds
           /\ E[i].ward_name = wardNames[E[i].ward_id]
           /\ E[i].points = wards[E[i].ward_id].points
           /\ E[i].pending_points = wards[E[i].ward_id].pending_points
           /\ E[i].total_points = E[i].points + E[i].pending_points
      /\ IF k \in RecognizedKeys THEN OrderedBy(E, k)
         ELSE /\ OrderedBy(E, "verified-desc")
              /\ RowOrders(wards, k, WardIds)
                   = RowOrders(wards, "verified-desc", WardIds)

\* a ward-asc result whose wards come in name order although the first has
\* fewer verified points than the second and more than the third, next to a
\* total-desc result that puts a ward above one with more verified points,
\* and a result for a key the switch does not know
C22_Witness ==
  \E p, q \in Procs :
    /\ Standings(p) /\ req[p].sort = "ward-asc"
    /\ [i \in 1..NumWards |-> entries[p][i].ward_id]
         = [i \in 1..NumWards |-> i]
    /\ entries[p][1].points < entries[p][2].points
    /\ entries[p][2].points > entries[p][3].points
    /\ entries[p][1].total_points > entries[p][2].total_points
    /\ Standings(q) /\ req[q].sort = "total-desc"
    /\ \E i, j \in 1..NumWards :
         /\ i < j
         /\ entries[q][i].points < entries[q][j].points
         /\ entries[q][i].total_points > entries[q][j].total_points

\* a result for an empty and one for an unknown sort key, over wards with
\* different verified points
C22_WitnessDefault ==
  \E p, q \in Procs :
    /\ Standings(p) /\ req[p].sort = ""
    /\ Standings(q) /\ req[q].sort = "points"
    /\ entries[p][1].points > entries[p][NumWards].points
    /\ entries[p] # entries[q]

\* t tenths of a percent is verified / 1300 x 100 rounded to one decimal:
\* no other number of tenths is nearer to it
NearestTenth(t, verified) ==
  /\ 2 * (1300 * t - 1000 * verified) <= 1300
  /\ 2 * (1000 * verified - 1300 * t) <= 1300

C27_RankIsPosition ==
  \A p \in Procs :
    Standings(p) =>
      /\ \A i \in 1..Len(entries[p]) : entries[p][i].rank = i
      /\ { entries[p][i].rank : i \in 1..Len(entries[p]) } = 1..NumWards
      /\ \A i, j \in 1..Len(entries[p]) :
           entries[p][i].rank = entries[p][j].rank => i = j

\* standings by verified points in which three wards tie on 650 points and
\* hold ranks 3, 4 and 5, and standings by total in which two wards tie
C27_Witness ==
  \E p, q \in Procs :
    /\ Standings(p) /\ req[p].sort = "verified-desc"
    /\ \A i \in 3..5 : entries[p][i].points = 650 /\ entries[p][i].rank = i
    /\ Standings(q) /\ req[q].sort = "total-asc"
    /\ \E i \in 1..(NumWards - 1) :
         /\ entries[q][i].total_points = entries[q][i + 1].total_points
         /\ entries[q][i].rank + 1 = entries[q][i + 1].rank

Adds(c) == c \in clients' /\ c \notin clients
Removes(c) == c \notin clients' /\ c \in clients
Closes(c) == closes'[c] # closes[c]
Enqueues(c) == Len(send'[c]) > Len(send[c])
Writes(c) == Adds(c) \/ Removes(c) \/ Closes(c) \/ Enqueues(c)

\* C25: the live set and the queues are written by the hub loop only, one
\* message at a time. A connection is added only when the hub, in its
\* select, takes the register offered for it; removed and closed only when
\* the hub takes its unregister or finds its queue full in the broadcast
\* loop; an event is enqueued only by the broadcast loop, and it is the
\* message being broadcast. A step writes for one connection at most, and
\* while a broadcast is being processed no register, unregister or further
\* broadcast is taken. A step of a handler or of a pump alone writes nothing.
C25_HubIsOnlyWriter ==
  [][ /\ \A c \in Conns :
           /\ Adds(c) => /\ hubPc = "select" /\ hubPc' = "select"
                         /\ cstate[c] = "registering"
                         /\ cstate'[c] = "running"
           /\ (Removes(c) \/ Closes(c)) =>
                /\ Removes(c) /\ closes'[c] = closes[c] + 1
                /\ \/ /\ hubPc = "select" /\ hubPc' = "select"
                      /\ rp[c] = "unreg" /\ rp'[c] = "done"
                   \/ /\ hubPc = "range" /\ c \in hubTodo
                      /\ c \notin hubTodo' /\ QueueFull(send[c])
           /\ Enqueues(c) =>
                /\ hubPc = "range" /\ c \in hubTodo /\ c \notin hubTodo'
                /\ c \in clients
                /\ send'[c] = Append(send[c], hubMsg)
           /\ Writes(c) =>
                /\ \A d \in Conns : Writes(d) => d = c
                /\ UNCHANGED <<pc, loc, resp, hubLog, hubMsg>>
                /\ \A d \in Conns \ {c} :
                     /\ cstate'[d] = cstate[d] /\ rp'[d] = rp[d]
                     /\ wp'[d] = wp[d]
      /\ hubPc = "range" =>
           /\ hubLog' = hubLog /\ hubMsg' = hubMsg
           /\ hubTodo' \subseteq hubTodo
           /\ \A c \in Conns :
                /\ cstate[c] = "registering" => cstate'[c] = "registering"
                /\ rp[c] = "unreg" => rp'[c] = "unreg"
      /\ (pc' # pc \/ wp' # wp
            \/ \E c \in Conns : rp[c] = "read" /\ rp'[c] # "read") =>
           \A c \in Conns :
             Writes(c) => cstate[c] = "registering" /\ Adds(c)
    ]_vars

\* in the middle of a broadcast: the event is enqueued for one connection,
\* the loop has yet to visit a second one, whose readPump is offering its
\* unregister, and a handler is offering the next broadcast
C25_Witness ==
  \E c, d \in Conns, p \in Procs :
    /\ hubPc = "range"
    /\ c \in clients \ hubTodo /\ send[c] = <<hubMsg>>
    /\ d \in hubTodo /\ rp[d] = "unreg"
    /\ pc[p] = "send" /\ loc[p].msg # hubMsg

\* C30: every connection in the live set has an open queue that holds no
\* more events than its capacity; every connection whose queue was closed
\* is out of the live set; and no step puts an event into a closed queue.
C30_LiveQueuesOpen ==
  /\ [](\A c \in Conns :
          /\ c \in clients => closes[c] = 0 /\ Len(send[c]) <= SendCap
          /\ closes[c] > 0 => c \notin clients)
  /\ [][ \A c \in Conns :
           Len(send'[c]) > Len(send[c]) => closes[c] = 0 /\ closes'[c] = 0
       ]_vars

\* after two broadcasts: one connection was dropped with a full queue, which
\* is closed and still holds its event, while the other, which took the
\* first event off its queue, is live with a queue filled to capacity
C30_Witness ==
  \E c, d \in Conns :
    /\ c # d /\ hubPc = "select" /\ Len(hubLog) = 2
    /\ c \notin clients /\ closes[c] = 1 /\ send[c] = <<hubLog[1]>>
    /\ d \in clients /\ closes[d] = 0 /\ send[d] = <<hubLog[2]>>
    /\ Len(send[d]) = SendCap

\* connection c has met a read error or a close by the peer (its readPump
\* has left its loop), or a failed write or ping (its writePump has
\* returned and closed the websocket)
ReadFailed(c) == rp[c] \in {"unreg", "done"}
WriteFailed(c) == wp[c] = "done"
Released(c) == c \notin clients /\ closes[c] = 1

\* C29: under fair scheduling a connection in the live set whose read side
\* or write side has failed is eventually out of the live set with its queue
\* closed. A failure of the write side alone leads there, the read side
\* still being in its loop when the write side fails.
C29_FailedConnReleased ==
  /\ \A c \in Conns :
       (c \in clients /\ (ReadFailed(c) \/ WriteFailed(c))) ~> Released(c)
  /\ \A c \in Conns :
       (c \in clients /\ WriteFailed(c) /\ rp[c] = "read") ~> Released(c)
  /\ \A c \in Conns : [](Released(c) => [] Released(c))

\* one connection released after both its pumps ended, without the hub ever
\* finding its queue full (no broadcast was made), and a second one still
\* live whose write side alone has failed
C29_Witness ==
  \E c, d \in Conns :
    /\ c # d
    /\ Released(c) /\ rp[c] = "done" /\ wp[c] = "done" /\ hubLog = << >>
    /\ d \in clients /\ WriteFailed(d) /\ rp[d] = "read" /\ ~connOpen[d]

\* submission x, present before and after the step, differs after it
Changed(x) == subs'[x] # subs[x]

StageOf(p) == Progress(pc[p], loc[p].ret)
StageAfter(p) == Progress(pc'[p], loc'[p].ret)

\* the positions of the `achievement` events for ward w and title ttl in the
\* sequence of messages the hub received
EventsAt(log, w, ttl) == {k \in 1..Len(log) : log[k] = AchMsg(w, ttl)}

\* C26: an Approve passes its stages in the order of the handler's text: the
\* submission's status update (1), the ward totals update (2), the
\* achievement evaluation with its `achievement` broadcasts (3, 4), the
\* activity log (5), the leaderboard query (6) and the `leaderboard-update`
\* broadcast (7); each table is written at its stage only. Run without
\* interference, the status update approves the submission, the totals
\* update moves its points from pending to verified, and the
\* `leaderboard-update` the hub takes from it carries those totals, the
\* title of every threshold achievement the verified total has reached, and
\* comes after an `achievement` event for each of them.
C26_ApproveOrder ==
  [][ \A p \in Procs :
        (req[p].op = "approve" /\ Steps(p)) =>
          LET w == loc[p].wardID
              after == WardsAfter(req[p], pre[p].subs, pre[p].wards)
          IN
          /\ StageOf(p) >= 1
          /\ StageAfter(p) = StageOf(p) + 1
               \/ (StageOf(p) = 4 /\ StageAfter(p) = 4)
          /\ subs' # subs => StageOf(p) = 1
          /\ wards' # wards => StageOf(p) = 2
          /\ achievements' # achievements => StageOf(p) = 4
          /\ activity_logs' # activity_logs => StageOf(p) = 5
          /\ hubLog' # hubLog =>
               /\ hubLog' = Append(hubLog, loc[p].msg)
               /\ \/ StageOf(p) = 4 /\ loc[p].msg.type = "achievement"
                  \/ StageOf(p) = 7 /\ loc[p].msg.type = "leaderboard-update"
          /\ StageOf(p) \in {4, 7} /\ pc[p] = "send" => hubLog' # hubLog
          /\ Alone(p) =>
               /\ StageOf(p) = 1 =>
                    /\ subs'[SubOf(req[p])].status = "approved"
                    /\ wards' = pre[p].wards
               /\ StageOf(p) = 2 => wards' = after /\ wards' # wards
               /\ StageOf(p) > 2 => wards = after /\ wards' = after
               /\ StageOf(p) = 7 =>
                    LET m == hubLog'[Len(hubLog')] IN
                    /\ m.type = "leaderboard-update"
                    /\ m.entries = after
                    /\ m.achs = {<<achievements[k].ward_id,
                                   achievements[k].title>> :
                                    k \in 1..Len(achievements)}
                    /\ \A k \in 1..Len(AchTable) :
                         AchCondition(after[w].points, k) =>
                           /\ <<w, AchTable[k].title>> \in m.achs
                           /\ EventsAt(hubLog, w, AchTable[k].title) # {}
                           /\ \A e \in EventsAt(hubLog', w, AchTable[k].title) :
                                e < Len(hubLog')
    ]_vars

\* the second of two Approve calls, run one after the other, has brought
\* ward 5 to 100 verified points: the achievement row is there, and the hub
\* received the first call's leaderboard-update, then the `achievement`
\* event, then a leaderboard-update with ward 5 at 100 verified, 0 pending
\* and the new title
C26_Witness ==
  \E p \in Procs :
    /\ Done(p) /\ req[p].op = "approve" /\ resp[p] = "200" /\ Alone(p)
    /\ req[p].n = 2
    /\ wards[5] = [points |-> 100, pending_points |-> 0]
    /\ RowsIn(achievements, 5, "first_100") = 1
    /\ Len(hubLog) = 3
    /\ hubLog[1].type = "leaderboard-update"
    /\ <<5, "First 100 Points!">> \notin hubLog[1].achs
    /\ hubLog[2] = AchMsg(5, "First 100 Points!")
    /\ hubLog[3].type = "leaderboard-update"
    /\ hubLog[3].entries[5] = [points |-> 100, pending_points |-> 0]
    /\ <<5, "First 100 Points!">> \in hubLog[3].achs

\* C31: whenever no Submit, Approve or Reject is in progress, every ward's
\* cached verified total is the sum of the points of its approved
\* submissions and its cached pending total the sum of the points of its
\* pending ones, whatever requests ran before and however their statements
\* were interleaved.
C31_AtRestTotalsMatch ==
  Quiet =>
    \A w \in WardIds :
      /\ wards[w].points = SumPoints(subs, w, "approved")
      /\ wards[w].pending_points = SumPoints(subs, w, "pending")

\* C32: every ward's cached pending total is never negative, and no step
\* lowers a ward's cached verified total, whatever Submit, Approve and
\* Reject calls run and however their statements are interleaved.
C32_PendingNonNegVerifiedMonotone ==
  /\ [](\A w \in WardIds : wards[w].pending_points >= 0)
  /\ [][ \A w \in WardIds : wards'[w].points >= wards[w].points ]_vars

\* C32, the part about the verified totals alone: no step lowers one.
C32_VerifiedMonotone ==
  [][ \A w \in WardIds : wards'[w].points >= wards[w].points ]_vars

\* the last leaderboard-update among the messages the hub received
LastUpdate(log) ==
  log[CHOOSE k \in 1..Len(log) :
        /\ log[k].type = "leaderboard-update"
        /\ \A j \in (k + 1)..Len(log) : log[j].type # "leaderboard-update"]

\* C33: once every Submit, Approve and Reject has answered and the hub is
\* back at its select, the last leaderboard-update the hub received, and
\* with it the last one it put into the queue of a live viewer, carries the
\* standings of the store as it is then.
C33_LastUpdateIsFinal ==
  (Quiet /\ hubPc = "select" /\ LeaderboardUpdates(hubLog) > 0) =>
    /\ LastUpdate(hubLog) = LeaderboardMsg(wards, achievements)
    /\ \A c \in clients :
         (send[c] # << >> /\ send[c][Len(send[c])] = LastUpdate(hubLog))
           => send[c][Len(send[c])] = LeaderboardMsg(wards, achievements)

====
